---------------------------- MODULE Spec2Model ----------------------------
(***************************************************************************)
(* Model of NumberMan1/component, package global-storage: the scalar (KV), *)
(* field-map (Hash) and sorted-set stores over a Redis backend, and their  *)
(* snapshot / buffered-operation / commit transactions.                    *)
(* Package share-db (share-db/db.go, unnamed/part_005): redisDB and the    *)
(* pipeline transaction txDB.                                              *)
(*                                                                         *)
(* The repository holds two builds of the KV and Hash stores:              *)
(*   impl = "eval"  : Commit sends one server-side script (EVAL)           *)
(*                    redis_kv.go, redis_hash.go:240-476, redis_zset.go    *)
(*   impl = "watch" : Commit runs WATCH / read / MULTI..EXEC               *)
(*                    redis_hash.go:1-238 (Hash), redis_hash.go:478-620(KV)*)
(* The sorted-set store exists in the "eval" form only.                    *)
(*                                                                         *)
(* A byte payload ([]byte) is a string; a possibly-nil []byte is a         *)
(* sequence of length <= 1: << >> is nil / redis.Nil, <<p>> holds p.       *)
(***************************************************************************)
EXTENDS Integers, Sequences, FiniteSets, TLC

VARIABLES
    impl,      \* which build of the stores is linked: "eval" or "watch"
    target,    \* the structure instance the clients work on: "kv", "hash", "zset",
               \* "mem", "manager", "share"
    kv,        \* backend: the value of the KV key, << >> when the key is absent
    kvVer,     \* history: number of writes made to the KV key
    kvWriter,  \* history: who wrote the KV key last (0: a direct Set, t: Commit of t)
    kvTx,      \* inMemoryKVTx objects, by handle
    hash,      \* backend: the Hash key, a function from its fields to payloads
    hashVer,   \* history: number of write calls made on the Hash key
    hashWriter,\* history: who wrote the Hash key last (0: a direct call, t: Commit of t)
    hashTx,    \* inMemoryHashTx objects, by handle
    zset,      \* backend: the sorted-set key, a function from its members to scores
    zsetVer,   \* history: number of write commands run on the sorted-set key
    zsetWriter,\* history: who wrote the sorted-set key last (0: direct, t: Commit of t)
    zsetTx,    \* inMemoryZSetTx objects, by handle
    zsetTrim,  \* the direct trim call in progress, between its ZCARD and its removal,
               \* or the last one that ran its removal (history)
    ret,       \* history: the last Commit call that returned, and its error, or the
               \* panic a transaction call ended in
    client,    \* README retry-loop clients (counter example)
    reg,       \* StorageManager: kvs, hashs, zsets, memHashs; name -> instance
    regCalls,  \* history: number of Register calls made, by structure type and name
    closeCalls,\* history: number of times Close was called on the manager's client
    mem,       \* memoryStore.data: a function from its fields to values
    memVer,    \* history: number of writes made to memoryStore.data
    memTx,     \* memoryTx objects, by handle
    mu,        \* the mutex of one transaction object: its writer and its readers
    thr,       \* goroutines calling methods of that transaction: method and step
    out,       \* history: the last recorded call, its arguments and what it returned
    db,        \* share-db redisDB: closed, and what the Redis server holds under a key
    txDB       \* share-db txDB: the transaction BeginTx returned

kvVars == <<kv, kvVer, kvWriter, kvTx>>
hashVars == <<hash, hashVer, hashWriter, hashTx>>
zsetVars == <<zset, zsetVer, zsetWriter, zsetTx, zsetTrim>>
mgrVars == <<reg, regCalls, closeCalls>>
memVars == <<mem, memVer, memTx>>
lockVars == <<mu, thr>>
shareVars == <<db, txDB>>
vars == <<impl, target, kvVars, hashVars, zsetVars, ret, client, mgrVars, memVars,
          lockVars, out, shareVars>>

-----------------------------------------------------------------------------
(* Bounds *)

\* Number of operations buffered in the queues of the Hash transactions
MaxHashOps == 2
\* Number of write calls on the Hash key that the history counter follows
MaxHashWrites == 2

\* Hash transaction handles, handed out in this order; the handle used when
\* one transaction runs beside direct callers
HashTxIds == {1, 2}
HashSoloIds == {1}
HFields == {"f", "g"}
HPayloads == {"a", "b"}

\* Number of operations buffered in the queue of a sorted-set transaction
MaxZSetOps == 2
\* Number of write commands on the sorted-set key that the history counter follows
MaxZSetWrites == 2

\* Sorted-set transaction handles; member payloads, listed in byte order; scores;
\* arguments of the trims
ZSetTxIds == {1}
ZMemberOrder == <<"x", "y">>
ZMembers == {"x", "y"}
ZScores == {1, 2}
ZTrimNs == {0, 1}
ZAnyTrimNs == {-1, 0, 1}

\* Number of Register calls made on the StorageManager
MaxRegCalls == 4
\* Number of Close calls made on the StorageManager
MaxCloseCalls == 2

\* Number of writes to the KV key that the history counter follows
MaxKVWrites == 2

\* KV transaction handles, handed out in this order
KVTxIds == {1, 2}

\* Payloads callers hand to Set (results of MarshalBinary): the empty payload,
\* the text the EVAL build uses as its "absent" argument, and an ordinary one.
KVPayloads == {"", "__NIL__", "a"}

-----------------------------------------------------------------------------
(* Byte slices *)

NilBytes == << >>
Some(p) == <<p>>
IsNil(b) == b = << >>
\* the bytes of a slice; a nil slice has no bytes
Content(b) == IF b = << >> THEN "" ELSE b[1]
\* bytes.Equal: nil and empty slices are equal
BytesEqual(a, b) == Content(a) = Content(b)

\* errors
NoErr == "nil"
ErrFieldNotFound == "ErrFieldNotFound"
ErrTransactionConflict == "ErrTransactionConflict"
ErrFinished == "errors.New(transaction already finished)"
ErrAnonFieldNotFound == "errors.New(field not found)"
ErrAnonKeyNotFound == "errors.New(key not found)"

\* a run-time panic: slice bounds out of range
Panic == "panic: slice bounds out of range"

\* what the last Commit call to return gave, and on which handle
Ret(tid, err) == [tid |-> tid, err |-> err]

\* a recorded call; what a call returns: its error (or panic) and its value
Out(op, args, res) == [op |-> op, args |-> args, res |-> res]
Res(err, val) == [err |-> err, val |-> val]
NoOut == Out("none", << >>, Res(NoErr, << >>))

\* Go's int and int64 are two's complement integers and a sum wraps around. The
\* width is kept at 31 bits here, so that every sum stays an integer of the
\* model checker; the wrap is the same at 64 bits.
MaxInt == 2^30 - 1
MinInt == -(2^30)
IntAdd(a, b) ==
    LET sum == a + b
    IN  IF sum > MaxInt THEN (sum - 2^30) - 2^30
        ELSE IF sum < MinInt THEN (sum + 2^30) + 2^30
        ELSE sum

\* the slice expression arr[lo:hi] of Go: it panics unless 0 <= lo <= hi <= cap,
\* and the slices cut here have no capacity beyond their length to be cut into
GoSlice(arr, lo, hi) ==
    IF 0 <= lo /\ lo <= hi /\ hi <= Len(arr) THEN Res(NoErr, SubSeq(arr, lo + 1, hi))
                                              ELSE Res(Panic, << >>)

-----------------------------------------------------------------------------
(* Scalar store: redisKV and inMemoryKVTx *)

KVTxNone ==
    [st |-> "none", snapshot |-> NilBytes, write |-> NilBytes, written |-> FALSE,
     done |-> FALSE, rolled |-> FALSE, pc |-> "idle", dirty |-> FALSE, beginVer |-> 0]

\* a write command on the key invalidates every WATCH on it
KVTouch(txs) ==
    [t \in KVTxIds |-> IF txs[t].pc \in {"watch", "exec"}
                        THEN [txs[t] EXCEPT !.dirty = TRUE] ELSE txs[t]]

\* redisKV.Set
KVSet(v) ==
    /\ target = "kv"
    /\ kvVer < MaxKVWrites
    /\ kv' = Some(v)
    /\ kvVer' = kvVer + 1
    /\ kvWriter' = 0
    /\ kvTx' = KVTouch(kvTx)
    /\ UNCHANGED ret
    /\ UNCHANGED <<impl, target, shareVars, memVars, lockVars, mgrVars, out, zsetVars, hashVars, client>>

\* (mutant) an empty payload is taken for an absent key
KVGetResult_EmptyIsAbsent ==
    IF IsNil(kv) \/ kv = Some("")
    THEN [err |-> ErrFieldNotFound, val |-> NilBytes]
    ELSE [err |-> NoErr, val |-> kv]

\* redisKV.Get
KVGetResult ==
    IF IsNil(kv) THEN [err |-> ErrFieldNotFound, val |-> NilBytes]
                 ELSE [err |-> NoErr, val |-> kv]

KVGet ==
    /\ target = "kv"
    /\ UNCHANGED ret
    /\ UNCHANGED <<impl, target, shareVars, memVars, lockVars, mgrVars, out, zsetVars, hashVars, kv, kvVer, kvWriter, kvTx, client>>

\* redisKV.BeginTx: the snapshot is the key's bytes, nil when it is absent
KVNewTx == [KVTxNone EXCEPT !.st = "open", !.snapshot = kv, !.beginVer = kvVer]

KVBeginTx(t) ==
    /\ target = "kv"
    /\ kvTx[t].st = "none"
    /\ \A u \in KVTxIds : u < t => kvTx[u].st = "open"
    /\ kvTx' = [kvTx EXCEPT ![t] = KVNewTx]
    /\ UNCHANGED ret
    /\ UNCHANGED <<impl, target, shareVars, memVars, lockVars, mgrVars, out, zsetVars, hashVars, kv, kvVer, kvWriter, client>>

\* (mutant) the write is stored but not flagged as written
KVTxSetBody_NotFlagged(tx, v) == [tx EXCEPT !.write = Some(v)]

\* inMemoryKVTx.Set: no test of tx.done
KVTxSetBody(tx, v) == [tx EXCEPT !.write = Some(v), !.written = TRUE]

KVTxSet(t, v) ==
    /\ target = "kv"
    /\ kvTx[t].st = "open" /\ kvTx[t].pc = "idle"
    /\ kvTx' = [kvTx EXCEPT ![t] = KVTxSetBody(kvTx[t], v)]
    /\ UNCHANGED ret
    /\ UNCHANGED <<impl, target, shareVars, memVars, lockVars, mgrVars, out, zsetVars, hashVars, kv, kvVer, kvWriter, client>>

\* (mutant) the snapshot payload goes before the buffered write
KVTxGetResult_SnapshotFirst(tx) ==
    LET data == IF ~IsNil(tx.snapshot) THEN tx.snapshot ELSE tx.write
    IN  IF IsNil(data)
        THEN [err |-> IF impl = "eval" THEN ErrFieldNotFound ELSE ErrAnonKeyNotFound,
              val |-> NilBytes]
        ELSE [err |-> NoErr, val |-> data]

\* (mutant) a transaction without a buffered write reads the key
KVTxGetResult_ReadsBackend(tx) ==
    LET data == IF tx.written THEN tx.write ELSE kv
    IN  IF IsNil(data)
        THEN [err |-> IF impl = "eval" THEN ErrFieldNotFound ELSE ErrAnonKeyNotFound,
              val |-> NilBytes]
        ELSE [err |-> NoErr, val |-> data]

\* inMemoryKVTx.Get: the buffered write, else the snapshot; nil data is not found
KVTxGetResult(tx) ==
    LET data == IF tx.written THEN tx.write ELSE tx.snapshot
    IN  IF IsNil(data)
        THEN [err |-> IF impl = "eval" THEN ErrFieldNotFound ELSE ErrAnonKeyNotFound,
              val |-> NilBytes]
        ELSE [err |-> NoErr, val |-> data]

KVTxGet(t) ==
    /\ target = "kv"
    /\ kvTx[t].st = "open" /\ kvTx[t].pc = "idle"
    /\ UNCHANGED ret
    /\ UNCHANGED <<impl, target, shareVars, memVars, lockVars, mgrVars, out, zsetVars, hashVars, kv, kvVer, kvWriter, kvTx, client>>

\* the Lua script of inMemoryKVTx.Commit: ARGV[1] is the snapshot, or the text
\* __NIL__ when the snapshot is nil; redis GET gives false for an absent key
KVScriptMatches(current, snapshot) ==
    LET snapshotArg == IF IsNil(snapshot) THEN "__NIL__" ELSE snapshot[1]
    IN  \/ (~IsNil(current) /\ current[1] = snapshotArg)
        \/ (IsNil(current) /\ snapshotArg = "__NIL__")

\* (mutant) Commit runs the script also when nothing is buffered
KVTxCommitEvalStep_AlwaysScript(t) ==
    /\ target = "kv" /\ impl = "eval"
    /\ kvTx[t].st = "open"
    /\ IF kvTx[t].done
       THEN /\ ret' = Ret(t, ErrFinished)
            /\ UNCHANGED <<kv, kvVer, kvWriter, kvTx>>
       ELSE IF KVScriptMatches(kv, kvTx[t].snapshot)
       THEN /\ kvVer < MaxKVWrites
            /\ kv' = kvTx[t].write
            /\ kvVer' = kvVer + 1
            /\ kvTx' = [kvTx EXCEPT ![t].done = TRUE]
            /\ kvWriter' = t
            /\ ret' = Ret(t, NoErr)
       ELSE /\ kvTx' = [kvTx EXCEPT ![t].done = TRUE]
            /\ ret' = Ret(t, ErrTransactionConflict)
            /\ UNCHANGED <<kv, kvVer, kvWriter>>
    /\ UNCHANGED <<impl, target, shareVars, memVars, lockVars, mgrVars, out, zsetVars, hashVars>>

\* inMemoryKVTx.Commit, EVAL build: one atomic script
KVTxCommitEvalStep(t) ==
    /\ target = "kv" /\ impl = "eval"
    /\ kvTx[t].st = "open"
    /\ IF kvTx[t].done
       THEN /\ ret' = Ret(t, ErrFinished)
            /\ UNCHANGED <<kv, kvVer, kvWriter, kvTx>>
       ELSE IF ~kvTx[t].written
       THEN /\ kvTx' = [kvTx EXCEPT ![t].done = TRUE]
            /\ ret' = Ret(t, NoErr)
            /\ UNCHANGED <<kv, kvVer, kvWriter>>
       ELSE IF KVScriptMatches(kv, kvTx[t].snapshot)
       THEN /\ kvVer < MaxKVWrites
            /\ kv' = kvTx[t].write
            /\ kvVer' = kvVer + 1
            /\ kvTx' = [kvTx EXCEPT ![t].done = TRUE]
            /\ kvWriter' = t
            /\ ret' = Ret(t, NoErr)
       ELSE /\ kvTx' = [kvTx EXCEPT ![t].done = TRUE]
            /\ ret' = Ret(t, ErrTransactionConflict)
            /\ UNCHANGED <<kv, kvVer, kvWriter>>
    /\ UNCHANGED <<impl, target, shareVars, memVars, lockVars, mgrVars, out, zsetVars, hashVars>>

\* inMemoryKVTx.Commit, WATCH build, up to the WATCH command
KVTxCommitWatchStep(t) ==
    /\ target = "kv" /\ impl = "watch"
    /\ kvTx[t].st = "open" /\ kvTx[t].pc = "idle"
    /\ IF kvTx[t].done
       THEN /\ ret' = Ret(t, ErrFinished)
            /\ UNCHANGED kvTx
       ELSE IF ~kvTx[t].written
       THEN /\ ret' = Ret(t, NoErr)
            /\ UNCHANGED kvTx
       ELSE /\ kvTx' = [kvTx EXCEPT ![t].pc = "watch", ![t].dirty = FALSE]
            /\ UNCHANGED ret
    /\ UNCHANGED <<impl, target, shareVars, memVars, lockVars, mgrVars, out, zsetVars, hashVars, kv, kvVer, kvWriter>>

\* ... the GET inside the watch function and the comparison with the snapshot
KVTxCommitCheckStep(t) ==
    /\ target = "kv" /\ impl = "watch"
    /\ kvTx[t].pc = "watch"
    /\ IF BytesEqual(kv, kvTx[t].snapshot)
       THEN /\ kvTx' = [kvTx EXCEPT ![t].pc = "exec"]
            /\ UNCHANGED ret
       ELSE /\ kvTx' = [kvTx EXCEPT ![t].pc = "idle", ![t].dirty = FALSE]
            /\ ret' = Ret(t, ErrTransactionConflict)
    /\ UNCHANGED <<impl, target, shareVars, memVars, lockVars, mgrVars, out, zsetVars, hashVars, kv, kvVer, kvWriter>>

\* ... MULTI / SET / EXEC: EXEC is refused when the key was written since WATCH
KVTxCommitExecStep(t) ==
    /\ target = "kv" /\ impl = "watch"
    /\ kvTx[t].pc = "exec"
    /\ IF kvTx[t].dirty
       THEN /\ kvTx' = [kvTx EXCEPT ![t].pc = "idle", ![t].dirty = FALSE]
            /\ ret' = Ret(t, ErrTransactionConflict)
            /\ UNCHANGED <<kv, kvVer, kvWriter>>
       ELSE /\ kvVer < MaxKVWrites
            /\ kv' = kvTx[t].write
            /\ kvVer' = kvVer + 1
            /\ kvTx' = [KVTouch(kvTx) EXCEPT ![t].pc = "idle", ![t].dirty = FALSE,
                                              ![t].done = TRUE]
            /\ kvWriter' = t
            /\ ret' = Ret(t, NoErr)
    /\ UNCHANGED <<impl, target, shareVars, memVars, lockVars, mgrVars, out, zsetVars, hashVars>>

KVTxCommitEval(t) == KVTxCommitEvalStep(t) /\ UNCHANGED client
KVTxCommitWatch(t) == KVTxCommitWatchStep(t) /\ UNCHANGED client
KVTxCommitCheck(t) == KVTxCommitCheckStep(t) /\ UNCHANGED client
KVTxCommitExec(t) == KVTxCommitExecStep(t) /\ UNCHANGED client

\* (mutant) Rollback leaves the transaction open
KVTxRollbackBody_StaysOpen(tx) == [tx EXCEPT !.rolled = TRUE]

\* (mutant) Rollback empties the buffer and leaves the transaction open
KVTxRollbackBody_DiscardsOnly(tx) ==
    [tx EXCEPT !.write = NilBytes, !.written = FALSE, !.rolled = TRUE]

\* inMemoryKVTx.Rollback: tx.done = true (rolled: history, Rollback was called)
KVTxRollbackBody(tx) == [tx EXCEPT !.done = TRUE, !.rolled = TRUE]

KVTxRollback(t) ==
    /\ target = "kv"
    /\ kvTx[t].st = "open" /\ kvTx[t].pc = "idle"
    /\ kvTx' = [kvTx EXCEPT ![t] = KVTxRollbackBody(kvTx[t])]
    /\ UNCHANGED ret
    /\ UNCHANGED <<impl, target, shareVars, memVars, lockVars, mgrVars, out, zsetVars, hashVars, kv, kvVer, kvWriter, client>>

NextKV ==
    \/ \E v \in KVPayloads : KVSet(v)
    \/ KVGet
    \/ \E t \in KVTxIds : KVBeginTx(t)
    \/ \E t \in KVTxIds, v \in KVPayloads : KVTxSet(t, v)
    \/ \E t \in KVTxIds : KVTxGet(t)
    \/ \E t \in KVTxIds : KVTxCommitEval(t)
    \/ \E t \in KVTxIds : KVTxCommitWatch(t)
    \/ \E t \in KVTxIds : KVTxCommitCheck(t)
    \/ \E t \in KVTxIds : KVTxCommitExec(t)
    \/ \E t \in KVTxIds : KVTxRollback(t)

-----------------------------------------------------------------------------
(* Field-map store: redisHash and inMemoryHashTx *)

EmptyMap == [f \in {} |-> "a"]
HashMaps == UNION {[D -> HPayloads] : D \in SUBSET HFields}

HashTxNone ==
    [st |-> "none", snapshot |-> EmptyMap, opQueue |-> << >>, done |-> FALSE,
     rolled |-> FALSE, pc |-> "idle", dirty |-> FALSE, beginVer |-> 0]

SetOp(f, v) == [isSet |-> TRUE, field |-> f, value |-> Some(v)]
DelOp(f) == [isSet |-> FALSE, field |-> f, value |-> NilBytes]

\* HSET / HDEL on a map
MapSet(m, f, v) == [x \in (DOMAIN m) \cup {f} |-> IF x = f THEN v ELSE m[x]]
MapDel(m, f) == [x \in (DOMAIN m) \ {f} |-> m[x]]

\* a write command on the key invalidates every WATCH on it
HashTouch(txs) ==
    [t \in HashTxIds |-> IF txs[t].pc \in {"watch", "exec"}
                          THEN [txs[t] EXCEPT !.dirty = TRUE] ELSE txs[t]]

\* redisHash.HSet
HashHSet(f, v) ==
    /\ target = "hash"
    /\ hashVer < MaxHashWrites
    /\ hash' = MapSet(hash, f, v)
    /\ hashVer' = hashVer + 1
    /\ hashWriter' = 0
    /\ hashTx' = HashTouch(hashTx)
    /\ UNCHANGED ret
    /\ UNCHANGED <<impl, target, shareVars, memVars, lockVars, mgrVars, out, zsetVars, kvVars, client>>

\* (mutant) HGet answers with a field the key has, whichever was asked
HashHGetResult_AnyField(f) ==
    IF hash # EmptyMap
    THEN [err |-> NoErr, val |-> Some(hash[CHOOSE x \in DOMAIN hash : TRUE])]
    ELSE [err |-> ErrFieldNotFound, val |-> NilBytes]

\* redisHash.HGet
HashHGetResult(f) ==
    IF f \in DOMAIN hash THEN [err |-> NoErr, val |-> Some(hash[f])]
                         ELSE [err |-> ErrFieldNotFound, val |-> NilBytes]

HashHGet(f) ==
    /\ target = "hash"
    /\ UNCHANGED ret
    /\ UNCHANGED <<impl, target, shareVars, memVars, lockVars, mgrVars, out, zsetVars, kvVars, hashVars, client>>

\* redisHash.HGetAll: every field of the key; the empty map for a key never written
HashHGetAllResult == hash

HashHGetAll ==
    /\ target = "hash"
    /\ UNCHANGED ret
    /\ UNCHANGED <<impl, target, shareVars, memVars, lockVars, mgrVars, out, zsetVars, kvVars, hashVars, client>>

\* redisHash.HDel(fields...): HDEL writes the key only when it removes a field
HashHDel(fs) ==
    /\ target = "hash"
    /\ hashVer < MaxHashWrites
    /\ hash' = [x \in (DOMAIN hash) \ fs |-> hash[x]]
    /\ hashVer' = hashVer + 1
    /\ hashWriter' = 0
    /\ hashTx' = IF fs \cap DOMAIN hash # {} THEN HashTouch(hashTx) ELSE hashTx
    /\ UNCHANGED ret
    /\ UNCHANGED <<impl, target, shareVars, memVars, lockVars, mgrVars, out, zsetVars, kvVars, client>>

\* redisHash.BeginTx and newInMemoryHashTx: the snapshot is a copy of HGETALL
HashNewTx == [HashTxNone EXCEPT !.st = "open", !.snapshot = hash, !.beginVer = hashVer]

HashBeginTx(t) ==
    /\ target = "hash"
    /\ hashTx[t].st = "none"
    /\ \A u \in HashTxIds : u < t => hashTx[u].st = "open"
    /\ hashTx' = [hashTx EXCEPT ![t] = HashNewTx]
    /\ UNCHANGED ret
    /\ UNCHANGED <<impl, target, shareVars, memVars, lockVars, mgrVars, out, zsetVars, kvVars, hash, hashVer, hashWriter, client>>

RECURSIVE SumLen(_, _)
SumLen(txs, S) ==
    IF S = {} THEN 0
    ELSE LET t == CHOOSE x \in S : TRUE IN Len(txs[t].opQueue) + SumLen(txs, S \ {t})
HashOpsBuffered == SumLen(hashTx, HashTxIds)

\* inMemoryHashTx.HSet: appends a set; no test of tx.done
HashTxHSet(t, f, v) ==
    /\ target = "hash"
    /\ hashTx[t].st = "open" /\ hashTx[t].pc = "idle"
    /\ HashOpsBuffered + 1 <= MaxHashOps
    /\ hashTx' = [hashTx EXCEPT ![t].opQueue = Append(@, SetOp(f, v))]
    /\ UNCHANGED ret
    /\ UNCHANGED <<impl, target, shareVars, memVars, lockVars, mgrVars, out, zsetVars, kvVars, hash, hashVer, hashWriter, client>>

\* inMemoryHashTx.HDel(fields...): appends one delete per field, in order
DelOps(fs) == [i \in 1..Len(fs) |-> DelOp(fs[i])]

HashTxHDel(t, fs) ==
    /\ target = "hash"
    /\ hashTx[t].st = "open" /\ hashTx[t].pc = "idle"
    /\ HashOpsBuffered + Len(fs) <= MaxHashOps
    /\ hashTx' = [hashTx EXCEPT ![t].opQueue = @ \o DelOps(fs)]
    /\ UNCHANGED ret
    /\ UNCHANGED <<impl, target, shareVars, memVars, lockVars, mgrVars, out, zsetVars, kvVars, hash, hashVer, hashWriter, client>>

\* inMemoryHashTx.HGet, WATCH build (redis_hash.go:125): scans the queue forwards
\* from the snapshot entry, the last operation on the field deciding
RECURSIVE HGetScanForward(_, _, _, _)
HGetScanForward(q, f, data, found) ==
    IF q = << >> THEN [data |-> data, found |-> found]
    ELSE IF Head(q).field = f
         THEN IF Head(q).isSet THEN HGetScanForward(Tail(q), f, Head(q).value, TRUE)
                               ELSE HGetScanForward(Tail(q), f, data, FALSE)
         ELSE HGetScanForward(Tail(q), f, data, found)

HashTxHGetWatch(tx, f) ==
    LET r == HGetScanForward(tx.opQueue, f,
                             IF f \in DOMAIN tx.snapshot THEN Some(tx.snapshot[f]) ELSE NilBytes,
                             f \in DOMAIN tx.snapshot)
    IN  IF ~r.found THEN [err |-> ErrAnonFieldNotFound, val |-> NilBytes]
                    ELSE [err |-> NoErr, val |-> r.data]

\* inMemoryHashTx.HGet, EVAL build (redis_hash.go:364): scans the queue backwards
\* and stops at the first operation on the field, else reads the snapshot
RECURSIVE HGetScanBackward(_, _, _)
HGetScanBackward(q, i, f) ==
    IF i = 0 THEN [hit |-> FALSE, err |-> NoErr, val |-> NilBytes]
    ELSE IF q[i].field = f
         THEN IF q[i].isSet THEN [hit |-> TRUE, err |-> NoErr, val |-> q[i].value]
                            ELSE [hit |-> TRUE, err |-> ErrFieldNotFound, val |-> NilBytes]
         ELSE HGetScanBackward(q, i - 1, f)

HashTxHGetEval(tx, f) ==
    LET r == HGetScanBackward(tx.opQueue, Len(tx.opQueue), f)
    IN  IF r.hit THEN [err |-> r.err, val |-> r.val]
        ELSE IF f \in DOMAIN tx.snapshot THEN [err |-> NoErr, val |-> Some(tx.snapshot[f])]
        ELSE [err |-> ErrFieldNotFound, val |-> NilBytes]

HashTxHGetResult(tx, f) ==
    IF impl = "eval" THEN HashTxHGetEval(tx, f) ELSE HashTxHGetWatch(tx, f)

HashTxHGet(t, f) ==
    /\ target = "hash"
    /\ hashTx[t].st = "open"
    /\ impl = "eval" => hashTx[t].pc = "idle"
    /\ UNCHANGED ret
    /\ UNCHANGED <<impl, target, shareVars, memVars, lockVars, mgrVars, out, zsetVars, kvVars, hashVars, client>>

\* the loop of HGetAll and of Commit: the operations applied to a map in queue order
RECURSIVE ApplyHashOps(_, _)
ApplyHashOps(m, q) ==
    IF q = << >> THEN m
    ELSE ApplyHashOps(IF Head(q).isSet THEN MapSet(m, Head(q).field, Head(q).value[1])
                                       ELSE MapDel(m, Head(q).field),
                      Tail(q))

\* (mutant) the deletes of the queue are skipped
HashTxHGetAllResult_NoDeletes(tx) ==
    ApplyHashOps(tx.snapshot, SelectSeq(tx.opQueue, LAMBDA op : op.isSet))

\* inMemoryHashTx.HGetAll (both builds): the snapshot copy with the queue applied
HashTxHGetAllResult(tx) == ApplyHashOps(tx.snapshot, tx.opQueue)

HashTxHGetAll(t) ==
    /\ target = "hash"
    /\ hashTx[t].st = "open"
    /\ impl = "eval" => hashTx[t].pc = "idle"
    /\ UNCHANGED ret
    /\ UNCHANGED <<impl, target, shareVars, memVars, lockVars, mgrVars, out, zsetVars, kvVars, hashVars, client>>

\* whether running the queue on the key executes a command that writes it
RECURSIVE HashOpsWrite(_, _)
HashOpsWrite(m, q) ==
    IF q = << >> THEN FALSE
    ELSE \/ Head(q).isSet
         \/ Head(q).field \in DOMAIN m
         \/ HashOpsWrite(m, Tail(q))

\* (mutant) the calls are sent last to first
HashCommitBatch_Reversed(m, q) ==
    ApplyHashOps(m, [i \in 1..Len(q) |-> q[Len(q) + 1 - i]])

\* what Commit sends: the queue as one script (EVAL) or one MULTI..EXEC block
HashCommitBatch(m, q) == ApplyHashOps(m, q)

\* inMemoryHashTx.Commit, EVAL build (redis_hash.go:430): no comparison with the
\* snapshot, the script runs every queued call
HashTxCommitEval(t) ==
    /\ target = "hash" /\ impl = "eval"
    /\ hashTx[t].st = "open"
    /\ IF hashTx[t].done
       THEN /\ ret' = Ret(t, ErrFinished)
            /\ UNCHANGED hashVars
       ELSE IF Len(hashTx[t].opQueue) = 0
       THEN /\ hashTx' = [hashTx EXCEPT ![t].done = TRUE]
            /\ ret' = Ret(t, NoErr)
            /\ UNCHANGED <<hash, hashVer, hashWriter>>
       ELSE /\ hashVer < MaxHashWrites
            /\ hash' = HashCommitBatch(hash, hashTx[t].opQueue)
            /\ hashVer' = hashVer + 1
            /\ hashWriter' = t
            /\ hashTx' = [hashTx EXCEPT ![t].done = TRUE]
            /\ ret' = Ret(t, NoErr)
    /\ UNCHANGED <<impl, target, shareVars, memVars, lockVars, mgrVars, out, zsetVars, kvVars, client>>

\* inMemoryHashTx.Commit, WATCH build (redis_hash.go:178), up to the WATCH command
HashTxCommitWatch(t) ==
    /\ target = "hash" /\ impl = "watch"
    /\ hashTx[t].st = "open" /\ hashTx[t].pc = "idle"
    /\ IF hashTx[t].done
       THEN /\ ret' = Ret(t, ErrFinished)
            /\ UNCHANGED hashTx
       ELSE IF Len(hashTx[t].opQueue) = 0
       THEN /\ ret' = Ret(t, NoErr)
            /\ UNCHANGED hashTx
       ELSE /\ hashTx' = [hashTx EXCEPT ![t].pc = "watch", ![t].dirty = FALSE]
            /\ UNCHANGED ret
    /\ UNCHANGED <<impl, target, shareVars, memVars, lockVars, mgrVars, out, zsetVars, kvVars, hash, hashVer, hashWriter, client>>

\* ... HGETALL inside the watch function and reflect.DeepEqual with the snapshot
HashTxCommitCheck(t) ==
    /\ target = "hash" /\ impl = "watch"
    /\ hashTx[t].pc = "watch"
    /\ IF hash = hashTx[t].snapshot
       THEN /\ hashTx' = [hashTx EXCEPT ![t].pc = "exec"]
            /\ UNCHANGED ret
       ELSE /\ hashTx' = [hashTx EXCEPT ![t].pc = "idle", ![t].dirty = FALSE]
            /\ ret' = Ret(t, ErrTransactionConflict)
    /\ UNCHANGED <<impl, target, shareVars, memVars, lockVars, mgrVars, out, zsetVars, kvVars, hash, hashVer, hashWriter, client>>

\* ... TxPipelined: EXEC is refused when the key was written since WATCH
HashTxCommitExec(t) ==
    /\ target = "hash" /\ impl = "watch"
    /\ hashTx[t].pc = "exec"
    /\ IF hashTx[t].dirty
       THEN /\ hashTx' = [hashTx EXCEPT ![t].pc = "idle", ![t].dirty = FALSE]
            /\ ret' = Ret(t, ErrTransactionConflict)
            /\ UNCHANGED <<hash, hashVer, hashWriter>>
       ELSE /\ hashVer < MaxHashWrites
            /\ hash' = HashCommitBatch(hash, hashTx[t].opQueue)
            /\ hashVer' = hashVer + 1
            /\ hashWriter' = t
            /\ hashTx' = [(IF HashOpsWrite(hash, hashTx[t].opQueue)
                           THEN HashTouch(hashTx) ELSE hashTx)
                          EXCEPT ![t].pc = "idle", ![t].dirty = FALSE, ![t].done = TRUE]
            /\ ret' = Ret(t, NoErr)
    /\ UNCHANGED <<impl, target, shareVars, memVars, lockVars, mgrVars, out, zsetVars, kvVars, client>>

\* inMemoryHashTx.Rollback
HashTxRollback(t) ==
    /\ target = "hash"
    /\ hashTx[t].st = "open" /\ hashTx[t].pc = "idle"
    /\ hashTx' = [hashTx EXCEPT ![t].done = TRUE, ![t].rolled = TRUE]
    /\ UNCHANGED ret
    /\ UNCHANGED <<impl, target, shareVars, memVars, lockVars, mgrVars, out, zsetVars, kvVars, hash, hashVer, hashWriter, client>>

\* argument lists of HDel(fields...)
HDelArgs == {<<f>> : f \in HFields} \cup {<<f, g>> : f \in HFields, g \in HFields}

\* one transaction beside direct callers
NextHash ==
    \/ \E f \in HFields, v \in HPayloads : HashHSet(f, v)
    \/ \E f \in HFields : HashHGet(f)
    \/ HashHGetAll
    \/ \E fs \in (SUBSET HFields) \ {{}} : HashHDel(fs)
    \/ \E t \in HashSoloIds : HashBeginTx(t)
    \/ \E t \in HashSoloIds, f \in HFields, v \in HPayloads : HashTxHSet(t, f, v)
    \/ \E t \in HashSoloIds, fs \in HDelArgs : HashTxHDel(t, fs)
    \/ \E t \in HashSoloIds, f \in HFields : HashTxHGet(t, f)
    \/ \E t \in HashSoloIds : HashTxHGetAll(t)
    \/ \E t \in HashSoloIds : HashTxCommitEval(t)
    \/ \E t \in HashSoloIds : HashTxCommitWatch(t)
    \/ \E t \in HashSoloIds : HashTxCommitCheck(t)
    \/ \E t \in HashSoloIds : HashTxCommitExec(t)
    \/ \E t \in HashSoloIds : HashTxRollback(t)

\* two transactions that buffer sets and commit, as TestTransaction_Hash_Conflict
NextHashPair ==
    \/ \E t \in HashTxIds : HashBeginTx(t)
    \/ \E t \in HashTxIds, f \in HFields, v \in HPayloads : HashTxHSet(t, f, v)
    \/ \E t \in HashTxIds, f \in HFields : HashTxHGet(t, f)
    \/ \E t \in HashTxIds : HashTxCommitEval(t)
    \/ \E t \in HashTxIds : HashTxCommitWatch(t)
    \/ \E t \in HashTxIds : HashTxCommitCheck(t)
    \/ \E t \in HashTxIds : HashTxCommitExec(t)

-----------------------------------------------------------------------------
(* Sorted-set store: redisZSet and inMemoryZSetTx (one build: EVAL) *)

ZSetMaps == UNION {[D -> ZScores] : D \in SUBSET ZMembers}

\* an element: the payload MarshalBinary gives, and the score it keeps beside it
Elem(m, s) == [m |-> m, s |-> s]

ZSetTxNone ==
    [st |-> "none", snapshot |-> << >>, ops |-> << >>, done |-> FALSE,
     rolled |-> FALSE, beginVer |-> 0]

ZSetTrimNone == [pc |-> "idle", n |-> 0, total |-> 0]

\* zsetOp: an add holds the element, a remove the member bytes
AddOp(m, s) == [isAdd |-> TRUE, m |-> m, s |-> s]
RemOp(m) == [isAdd |-> FALSE, m |-> m, s |-> 0]

\* the order of a Redis sorted set: by score, equal scores by member bytes
ZLex(m) == CHOOSE i \in 1..Len(ZMemberOrder) : ZMemberOrder[i] = m
ZBefore(z, a, b) == z[a] < z[b] \/ (z[a] = z[b] /\ ZLex(a) < ZLex(b))
ZRank(z, m) == Cardinality({u \in DOMAIN z : ZBefore(z, u, m)})

\* ZRANGE key 0 -1 WITHSCORES
ZRangeAll(z) ==
    [i \in 1..Cardinality(DOMAIN z) |->
        LET m == CHOOSE x \in DOMAIN z : ZRank(z, x) = i - 1 IN Elem(m, z[m])]

\* rank arguments of a Redis range command: negative ranks count from the end
ZNormStart(count, start) ==
    LET s == IF start < 0 THEN start + count ELSE start IN IF s < 0 THEN 0 ELSE s
ZNormStop(count, stop) ==
    LET e == IF stop < 0 THEN stop + count ELSE stop IN IF e >= count THEN count - 1 ELSE e

\* (mutant) the removal stops one rank before stop
ZRemRangeByRank_ExclusiveStop(z, start, stop) ==
    LET count == Cardinality(DOMAIN z)
        gone == {m \in DOMAIN z : /\ ZNormStart(count, start) <= ZRank(z, m)
                                  /\ ZRank(z, m) < ZNormStop(count, stop)}
    IN  [m \in (DOMAIN z) \ gone |-> z[m]]

\* ZREMRANGEBYRANK key start stop
ZRemRangeByRank(z, start, stop) ==
    LET count == Cardinality(DOMAIN z)
        gone == {m \in DOMAIN z : /\ ZNormStart(count, start) <= ZRank(z, m)
                                  /\ ZRank(z, m) <= ZNormStop(count, stop)}
    IN  [m \in (DOMAIN z) \ gone |-> z[m]]

\* redisZSet.ZAdd
ZSetZAdd(m, s) ==
    /\ target = "zset"
    /\ zsetVer < MaxZSetWrites
    /\ zset' = MapSet(zset, m, s)
    /\ zsetVer' = zsetVer + 1
    /\ zsetWriter' = 0
    /\ UNCHANGED <<zsetTx, zsetTrim, ret>>
    /\ UNCHANGED <<impl, target, shareVars, memVars, lockVars, mgrVars, out, kvVars, hashVars, client>>

\* redisZSet.ZRem
ZSetZRem(m) ==
    /\ target = "zset"
    /\ zsetVer < MaxZSetWrites
    /\ zset' = MapDel(zset, m)
    /\ zsetVer' = zsetVer + 1
    /\ zsetWriter' = 0
    /\ UNCHANGED <<zsetTx, zsetTrim, ret>>
    /\ UNCHANGED <<impl, target, shareVars, memVars, lockVars, mgrVars, out, kvVars, hashVars, client>>

\* redisZSet.ZRange: ZRANGE key start stop WITHSCORES
ZSetZRangeResult(start, stop) ==
    LET all == ZRangeAll(zset)
        s == ZNormStart(Len(all), start)
        e == ZNormStop(Len(all), stop)
    IN  IF s > e THEN << >> ELSE SubSeq(all, s + 1, e + 1)

ZSetZRange ==
    /\ target = "zset"
    /\ UNCHANGED <<impl, target, shareVars, memVars, lockVars, mgrVars, out, kvVars, hashVars, zsetVars, ret, client>>

\* redisZSet.ZRevRangeByScore: ZREVRANGEBYSCORE key max min WITHSCORES, with
\* LIMIT offset count unless both are 0 (go-redis leaves LIMIT out then)
ZSetZRevRangeByScoreResult(max, min, offset, count) ==
    LET all == ZRangeAll(zset)
        in == SelectSeq(all, LAMBDA e : min <= e.s /\ e.s <= max)
        rev == [i \in 1..Len(in) |-> in[Len(in) + 1 - i]]
    IN  IF offset = 0 /\ count = 0 THEN rev
        ELSE IF offset < 0 \/ offset >= Len(rev) THEN << >>
        ELSE IF count < 0 \/ offset + count > Len(rev) THEN SubSeq(rev, offset + 1, Len(rev))
        ELSE SubSeq(rev, offset + 1, offset + count)

ZSetZRevRangeByScore ==
    /\ target = "zset"
    /\ UNCHANGED <<impl, target, shareVars, memVars, lockVars, mgrVars, out, kvVars, hashVars, zsetVars, ret, client>>

\* redisZSet.BeginTx: the snapshot is the list ZRANGE 0 -1 gives
ZSetNewTx ==
    [ZSetTxNone EXCEPT !.st = "open", !.snapshot = ZRangeAll(zset), !.beginVer = zsetVer]

ZSetBeginTx(t) ==
    /\ target = "zset"
    /\ zsetTx[t].st = "none"
    /\ zsetTx' = [zsetTx EXCEPT ![t] = ZSetNewTx]
    /\ UNCHANGED <<zset, zsetVer, zsetWriter, zsetTrim, ret>>
    /\ UNCHANGED <<impl, target, shareVars, memVars, lockVars, mgrVars, out, kvVars, hashVars, client>>

\* redisZSet.ZTrimByTopN and ZRevTrimByTopN, first command: ZCARD; the call
\* returns at once when total <= n
ZSetTrimCard(pc, n) ==
    /\ target = "zset"
    /\ zsetTrim.pc \notin {"trim", "revtrim"}
    /\ LET total == Cardinality(DOMAIN zset)
       IN  zsetTrim' = IF total <= n THEN zsetTrim
                       ELSE [pc |-> pc, n |-> n, total |-> total]
    /\ UNCHANGED <<zset, zsetVer, zsetWriter, zsetTx, ret>>
    /\ UNCHANGED <<impl, target, shareVars, memVars, lockVars, mgrVars, out, kvVars, hashVars, client>>

ZSetZTrimByTopNCard(n) == ZSetTrimCard("trim", n)
ZSetZRevTrimByTopNCard(n) == ZSetTrimCard("revtrim", n)

\* redisZSet.ZTrimByTopN, second command: ZREMRANGEBYRANK key n -1
ZSetZTrimByTopNRem ==
    /\ target = "zset"
    /\ zsetTrim.pc = "trim"
    /\ zsetVer < MaxZSetWrites
    /\ zset' = ZRemRangeByRank(zset, zsetTrim.n, -1)
    /\ zsetVer' = zsetVer + 1
    /\ zsetWriter' = 0
    /\ zsetTrim' = [zsetTrim EXCEPT !.pc = "trimmed"]
    /\ UNCHANGED <<zsetTx, ret>>
    /\ UNCHANGED <<impl, target, shareVars, memVars, lockVars, mgrVars, out, kvVars, hashVars, client>>

\* redisZSet.ZRevTrimByTopN, second command: ZREMRANGEBYRANK key 0 total-n-1
ZSetZRevTrimByTopNRem ==
    /\ target = "zset"
    /\ zsetTrim.pc = "revtrim"
    /\ zsetVer < MaxZSetWrites
    /\ zset' = ZRemRangeByRank(zset, 0, zsetTrim.total - zsetTrim.n - 1)
    /\ zsetVer' = zsetVer + 1
    /\ zsetWriter' = 0
    /\ zsetTrim' = [zsetTrim EXCEPT !.pc = "revtrimmed"]
    /\ UNCHANGED <<zsetTx, ret>>
    /\ UNCHANGED <<impl, target, shareVars, memVars, lockVars, mgrVars, out, kvVars, hashVars, client>>

\* inMemoryZSetTx.ZAdd: appends an add; no test of tx.done
ZSetTxZAdd(t, m, s) ==
    /\ target = "zset"
    /\ zsetTx[t].st = "open"
    /\ Len(zsetTx[t].ops) + 1 <= MaxZSetOps
    /\ zsetTx' = [zsetTx EXCEPT ![t].ops = Append(@, AddOp(m, s))]
    /\ UNCHANGED <<zset, zsetVer, zsetWriter, zsetTrim, ret>>
    /\ UNCHANGED <<impl, target, shareVars, memVars, lockVars, mgrVars, out, kvVars, hashVars, client>>

\* inMemoryZSetTx.ZRem: appends a remove; no test of tx.done
ZSetTxZRem(t, m) ==
    /\ target = "zset"
    /\ zsetTx[t].st = "open"
    /\ Len(zsetTx[t].ops) + 1 <= MaxZSetOps
    /\ zsetTx' = [zsetTx EXCEPT ![t].ops = Append(@, RemOp(m))]
    /\ UNCHANGED <<zset, zsetVer, zsetWriter, zsetTrim, ret>>
    /\ UNCHANGED <<impl, target, shareVars, memVars, lockVars, mgrVars, out, kvVars, hashVars, client>>

\* the loops of applyOps: memberMap, keyed by payload, from the snapshot and
\* then from the queue in order
ZSnapMap(snap) ==
    [m \in {snap[i].m : i \in DOMAIN snap} |->
        (CHOOSE e \in {snap[i] : i \in DOMAIN snap} : e.m = m).s]

RECURSIVE ZApplyOps(_, _)
ZApplyOps(mm, ops) ==
    IF ops = << >> THEN mm
    ELSE ZApplyOps(IF Head(ops).isAdd THEN MapSet(mm, Head(ops).m, Head(ops).s)
                                      ELSE MapDel(mm, Head(ops).m),
                   Tail(ops))

\* (mutant) an add of a payload that is in the map already is left out
applyOps_KeepsFirst(tx) ==
    LET F[i \in 0..Len(tx.ops)] ==
          IF i = 0 THEN ZSnapMap(tx.snapshot)
          ELSE IF ~tx.ops[i].isAdd THEN MapDel(F[i - 1], tx.ops[i].m)
          ELSE IF tx.ops[i].m \in DOMAIN F[i - 1] THEN F[i - 1]
          ELSE MapSet(F[i - 1], tx.ops[i].m, tx.ops[i].s)
    IN  F[Len(tx.ops)]

applyOps(tx) == ZApplyOps(ZSnapMap(tx.snapshot), tx.ops)

\* applyOps lists the map in the order of a Go map iteration and sort.Slice,
\* which is not stable, sorts the list by score: every order of the members by
\* score, ascending or descending, can come out
ZSorted(mm, desc) ==
    {q \in [1..Cardinality(DOMAIN mm) -> DOMAIN mm] :
        /\ \A i, j \in DOMAIN q : i # j => q[i] # q[j]
        /\ \A i, j \in DOMAIN q :
             i < j => IF desc THEN mm[q[i]] >= mm[q[j]] ELSE mm[q[i]] <= mm[q[j]]}

ZElems(mm, q) == [i \in DOMAIN q |-> Elem(q[i], mm[q[i]])]

\* (mutant) sliceRange without `if stop >= total { stop = total - 1 }`
sliceRange_NoStopClamp(arr, start, stop) ==
    LET total == Len(arr)
        s1 == IF start < 0 THEN IntAdd(start, total) ELSE start
        e1 == IF stop < 0 THEN IntAdd(stop, total) ELSE stop
        s2 == IF s1 < 0 THEN 0 ELSE s1
    IN  IF s2 > e1 THEN Res(NoErr, << >>) ELSE GoSlice(arr, s2, IntAdd(e1, 1))

\* (mutant) sliceRange returning arr[start:stop]
sliceRange_ExclusiveStop(arr, start, stop) ==
    LET total == Len(arr)
        s1 == IF start < 0 THEN IntAdd(start, total) ELSE start
        e1 == IF stop < 0 THEN IntAdd(stop, total) ELSE stop
        s2 == IF s1 < 0 THEN 0 ELSE s1
        e2 == IF e1 >= total THEN total - 1 ELSE e1
    IN  IF s2 > e2 THEN Res(NoErr, << >>) ELSE GoSlice(arr, s2, e2)

\* inMemoryZSetTx.sliceRange
sliceRange(arr, start, stop) ==
    LET total == Len(arr)
        s1 == IF start < 0 THEN IntAdd(start, total) ELSE start
        e1 == IF stop < 0 THEN IntAdd(stop, total) ELSE stop
        s2 == IF s1 < 0 THEN 0 ELSE s1
        e2 == IF e1 >= total THEN total - 1 ELSE e1
    IN  IF s2 > e2 THEN Res(NoErr, << >>) ELSE GoSlice(arr, s2, IntAdd(e2, 1))

\* inMemoryZSetTx.ZRange: the lists the call can return
ZSetTxZRangeResults(tx, start, stop) ==
    LET mm == applyOps(tx)
    IN  {sliceRange(ZElems(mm, q), start, stop) : q \in ZSorted(mm, FALSE)}

ZSetTxZRange(t) ==
    /\ target = "zset"
    /\ zsetTx[t].st = "open"
    /\ UNCHANGED <<impl, target, shareVars, memVars, lockVars, mgrVars, out, kvVars, hashVars, zsetVars, ret, client>>

\* inMemoryZSetTx.ZRevRangeByScore: the lists the call can return
ZSetTxZRevRangeByScoreResults(tx, max, min, offset, count) ==
    LET mm == applyOps(tx)
        in == {m \in DOMAIN mm : mm[m] <= max /\ mm[m] >= min}
        filtered == [m \in in |-> mm[m]]
        off == IF offset < 0 THEN 0 ELSE offset
        cnt == IF count < 0 THEN Cardinality(in) ELSE count
        sum == IntAdd(off, cnt)
        end == IF sum > Cardinality(in) THEN Cardinality(in) ELSE sum
    IN  {IF off >= Cardinality(in) THEN Res(NoErr, << >>)
         ELSE GoSlice(ZElems(filtered, q), off, end) : q \in ZSorted(filtered, TRUE)}

ZSetTxZRevRangeByScore(t) ==
    /\ target = "zset"
    /\ zsetTx[t].st = "open"
    /\ UNCHANGED <<impl, target, shareVars, memVars, lockVars, mgrVars, out, kvVars, hashVars, zsetVars, ret, client>>

\* the arguments the recorded reads are called with
ZRanks == {MinInt, -3, -2, -1, 0, 1, 2, MaxInt}
ZBounds == {1, 2}
ZOffsets == {-1, 0, 1, 2}
ZCounts == {-1, 0, 1, MaxInt}

\* inMemoryZSetTx.ZRange, the call and what it returned; a behaviour records
\* one read
ZSetTxZRangeCall(t, start, stop) ==
    /\ target = "zset"
    /\ zsetTx[t].st = "open"
    /\ out.op = "none"
    /\ \E r \in ZSetTxZRangeResults(zsetTx[t], start, stop) :
         out' = Out("ZRange", <<start, stop>>, r)
    /\ UNCHANGED <<impl, target, shareVars, memVars, lockVars, mgrVars, kvVars, hashVars, zsetVars, ret, client>>

\* inMemoryZSetTx.ZRevRangeByScore, the call and what it returned
ZSetTxZRevRangeByScoreCall(t, max, min, offset, count) ==
    /\ target = "zset"
    /\ zsetTx[t].st = "open"
    /\ out.op = "none"
    /\ \E r \in ZSetTxZRevRangeByScoreResults(zsetTx[t], max, min, offset, count) :
         out' = Out("ZRevRangeByScore", <<max, min, offset, count>>, r)
    /\ UNCHANGED <<impl, target, shareVars, memVars, lockVars, mgrVars, kvVars, hashVars, zsetVars, ret, client>>

\* the body of the trims on the sorted list q: nothing when total <= n, else
\* one remove per member of merged[n:]; the slice expression panics for n < 0
ZTrimRems(q, n) ==
    IF Len(q) <= n THEN Res(NoErr, << >>)
    ELSE LET rest == GoSlice(q, n, Len(q))
         IN  Res(rest.err, [i \in DOMAIN rest.val |-> RemOp(rest.val[i])])

ZSetTxTrim(t, n, desc) ==
    /\ target = "zset"
    /\ zsetTx[t].st = "open"
    /\ \E q \in ZSorted(applyOps(zsetTx[t]), desc) :
         LET rems == ZTrimRems(q, n)
         IN  IF rems.err = Panic
             THEN /\ ret' = Ret(t, Panic)
                  /\ UNCHANGED zsetTx
             ELSE /\ Len(zsetTx[t].ops) + Len(rems.val) <= MaxZSetOps
                  /\ zsetTx' = [zsetTx EXCEPT ![t].ops = @ \o rems.val]
                  /\ UNCHANGED ret
    /\ UNCHANGED <<zset, zsetVer, zsetWriter, zsetTrim>>
    /\ UNCHANGED <<impl, target, shareVars, memVars, lockVars, mgrVars, out, kvVars, hashVars, client>>

\* inMemoryZSetTx.ZTrimByTopN: keeps the first n by ascending score
ZSetTxZTrimByTopN(t, n) == ZSetTxTrim(t, n, FALSE)

\* inMemoryZSetTx.ZRevTrimByTopN: keeps the first n by descending score
ZSetTxZRevTrimByTopN(t, n) == ZSetTxTrim(t, n, TRUE)

\* (mutant) the script runs the adds and leaves the removes out
ZSetCommitBatch_AddsOnly(z, ops) == ZApplyOps(z, SelectSeq(ops, LAMBDA o : o.isAdd))

\* the script Commit builds: one zadd or zrem per queued operation, in order
ZSetCommitBatch(z, ops) == ZApplyOps(z, ops)

\* Score() is a float64 and may be NaN, which ZADD refuses; no other score of
\* the model is negative
NaN == -1
ErrNotFloat == "ERR value is not a valid float"

\* a call of the script that raises an error: the ZADD of a NaN score
ZScriptFails(op) == op.isAdd /\ op.s = NaN

\* the calls a script gets through: redis.call raises the error of a failing
\* command and the script stops there; what the calls before it wrote stays
ZScriptPrefix(ops) ==
    LET bad == {i \in DOMAIN ops : ZScriptFails(ops[i])}
    IN  IF bad = {} THEN ops
        ELSE SubSeq(ops, 1, (CHOOSE i \in bad : \A j \in bad : i <= j) - 1)

\* inMemoryZSetTx.Commit: no comparison with the snapshot, the script runs every
\* queued call
ZSetTxCommit(t) ==
    /\ target = "zset"
    /\ zsetTx[t].st = "open"
    /\ IF zsetTx[t].done
       THEN /\ ret' = Ret(t, ErrFinished)
            /\ UNCHANGED <<zset, zsetVer, zsetWriter, zsetTx>>
       ELSE IF Len(zsetTx[t].ops) = 0
       THEN /\ zsetTx' = [zsetTx EXCEPT ![t].done = TRUE]
            /\ ret' = Ret(t, NoErr)
            /\ UNCHANGED <<zset, zsetVer, zsetWriter>>
       ELSE /\ zsetVer < MaxZSetWrites
            /\ zset' = ZSetCommitBatch(zset, ZScriptPrefix(zsetTx[t].ops))
            /\ zsetVer' = zsetVer + 1
            /\ zsetWriter' = t
            /\ zsetTx' = [zsetTx EXCEPT ![t].done = TRUE]
            /\ ret' = Ret(t, IF ZScriptPrefix(zsetTx[t].ops) = zsetTx[t].ops
                             THEN NoErr ELSE ErrNotFloat)
    /\ UNCHANGED <<impl, target, shareVars, memVars, lockVars, mgrVars, out, kvVars, hashVars, zsetTrim, client>>

\* inMemoryZSetTx.Rollback
ZSetTxRollback(t) ==
    /\ target = "zset"
    /\ zsetTx[t].st = "open"
    /\ zsetTx' = [zsetTx EXCEPT ![t].done = TRUE, ![t].rolled = TRUE]
    /\ UNCHANGED <<zset, zsetVer, zsetWriter, zsetTrim, ret>>
    /\ UNCHANGED <<impl, target, shareVars, memVars, lockVars, mgrVars, out, kvVars, hashVars, client>>

\* The caller of tx.ZAdd(e) keeps e, and the queue holds e itself
\* (zsetOp{isAdd: true, element: element}): e.SetScore(s) by the caller is a
\* write to the element of the i-th queued call. One element object per ZAdd
\* call.
ElementSetScore(t, i, s) ==
    /\ target = "zset"
    /\ zsetTx[t].st = "open" /\ ~zsetTx[t].done
    /\ i \in DOMAIN zsetTx[t].ops /\ zsetTx[t].ops[i].isAdd
    /\ zsetTx' = [zsetTx EXCEPT ![t].ops[i].s = s]
    /\ UNCHANGED <<zset, zsetVer, zsetWriter, zsetTrim, ret>>
    /\ UNCHANGED <<impl, target, shareVars, memVars, lockVars, mgrVars, out, kvVars, hashVars, client>>

\* tx.ZRange returns the values of applyOps's memberMap, which are the items of
\* tx.snapshot and the elements of the queue themselves: SetScore(s) on the
\* returned member with payload m is a write to the element of the last add
\* of m, or else to the snapshot's item.
ReturnedSetScore(t, m, s) ==
    /\ target = "zset"
    /\ zsetTx[t].st = "open" /\ ~zsetTx[t].done
    /\ m \in DOMAIN applyOps(zsetTx[t])
    /\ LET ops == zsetTx[t].ops
           snap == zsetTx[t].snapshot
           adds == {i \in DOMAIN ops : ops[i].isAdd /\ ops[i].m = m}
       IN  IF adds # {}
           THEN LET i == CHOOSE j \in adds : \A k \in adds : k <= j
                IN  zsetTx' = [zsetTx EXCEPT ![t].ops[i].s = s]
           ELSE LET i == CHOOSE j \in DOMAIN snap : snap[j].m = m
                IN  zsetTx' = [zsetTx EXCEPT ![t].snapshot[i].s = s]
    /\ UNCHANGED <<zset, zsetVer, zsetWriter, zsetTrim, ret>>
    /\ UNCHANGED <<impl, target, shareVars, memVars, lockVars, mgrVars, out, kvVars, hashVars, client>>

\* a sorted-set transaction whose caller keeps, and changes, the elements it
\* passed to ZAdd and the ones ZRange returned
NextZAlias ==
    \/ \E m \in ZMembers, s \in ZScores : ZSetZAdd(m, s)
    \/ \E t \in ZSetTxIds : ZSetBeginTx(t)
    \/ \E t \in ZSetTxIds, m \in ZMembers, s \in ZScores : ZSetTxZAdd(t, m, s)
    \/ \E t \in ZSetTxIds, m \in ZMembers : ZSetTxZRem(t, m)
    \/ \E t \in ZSetTxIds : ZSetTxZRange(t)
    \/ \E t \in ZSetTxIds, i \in 1..MaxZSetOps, s \in ZScores : ElementSetScore(t, i, s)
    \/ \E t \in ZSetTxIds, m \in ZMembers, s \in ZScores : ReturnedSetScore(t, m, s)
    \/ \E t \in ZSetTxIds : ZSetTxCommit(t)

NextZSet ==
    \/ \E m \in ZMembers, s \in ZScores : ZSetZAdd(m, s)
    \/ \E m \in ZMembers : ZSetZRem(m)
    \/ ZSetZRange
    \/ ZSetZRevRangeByScore
    \/ \E n \in ZTrimNs : ZSetZTrimByTopNCard(n)
    \/ ZSetZTrimByTopNRem
    \/ \E n \in ZTrimNs : ZSetZRevTrimByTopNCard(n)
    \/ ZSetZRevTrimByTopNRem
    \/ \E t \in ZSetTxIds : ZSetBeginTx(t)
    \/ \E t \in ZSetTxIds, m \in ZMembers, s \in ZScores : ZSetTxZAdd(t, m, s)
    \/ \E t \in ZSetTxIds, m \in ZMembers : ZSetTxZRem(t, m)
    \/ \E t \in ZSetTxIds : ZSetTxZRange(t)
    \/ \E t \in ZSetTxIds : ZSetTxZRevRangeByScore(t)
    \/ \E t \in ZSetTxIds, n \in ZTrimNs : ZSetTxZTrimByTopN(t, n)
    \/ \E t \in ZSetTxIds, n \in ZTrimNs : ZSetTxZRevTrimByTopN(t, n)
    \/ \E t \in ZSetTxIds : ZSetTxCommit(t)
    \/ \E t \in ZSetTxIds : ZSetTxRollback(t)

\* a transaction of the sorted set and the reads made in it, with their results
NextZRead ==
    \/ \E t \in ZSetTxIds : ZSetBeginTx(t)
    \/ \E t \in ZSetTxIds, m \in ZMembers, s \in ZScores : ZSetTxZAdd(t, m, s)
    \/ \E t \in ZSetTxIds, m \in ZMembers : ZSetTxZRem(t, m)
    \/ \E t \in ZSetTxIds, n \in ZAnyTrimNs : ZSetTxZTrimByTopN(t, n)
    \/ \E t \in ZSetTxIds, n \in ZAnyTrimNs : ZSetTxZRevTrimByTopN(t, n)
    \/ \E t \in ZSetTxIds, start \in ZRanks, stop \in ZRanks :
         ZSetTxZRangeCall(t, start, stop)
    \/ \E t \in ZSetTxIds, max \in ZBounds, min \in ZBounds,
          offset \in ZOffsets, count \in ZCounts :
         ZSetTxZRevRangeByScoreCall(t, max, min, offset, count)

\* the direct callers of the sorted set
NextZTrim ==
    \/ \E m \in ZMembers, s \in ZScores : ZSetZAdd(m, s)
    \/ \E m \in ZMembers : ZSetZRem(m)
    \/ \E n \in ZAnyTrimNs : ZSetZTrimByTopNCard(n)
    \/ ZSetZTrimByTopNRem
    \/ \E n \in ZAnyTrimNs : ZSetZRevTrimByTopNCard(n)
    \/ ZSetZRevTrimByTopNRem

-----------------------------------------------------------------------------
(* README, section 4: clients that increment a counter kept in a KV store,  *)
(* each by BeginTx / tx.Get / ID++ / tx.Set / Commit, again on a conflict.   *)

maxRetries == 5

\* MarshalBinary / UnmarshalBinary of UserProfile{ID: n}: the JSON text of n
EncodeID(n) == ToString(n)
DecodeID(p) == CHOOSE n \in 0..9 : ToString(n) = p

CounterStarts == {0, 1}

\* tx, err := counter.BeginTx(ctx)
ClientBegin(c) ==
    /\ client.run[c].pc = "begin"
    /\ kvTx' = [kvTx EXCEPT ![c] = KVNewTx]
    /\ client' = [client EXCEPT !.run[c].pc = "get"]
    /\ UNCHANGED ret
    /\ UNCHANGED <<impl, target, shareVars, memVars, lockVars, mgrVars, out, zsetVars, hashVars, kv, kvVer, kvWriter>>

\* currentValue := &UserProfile{}; tx.Get(currentValue)
ClientGet(c) ==
    /\ client.run[c].pc = "get"
    /\ LET r == KVTxGetResult(kvTx[c])
       IN  client' = [client EXCEPT !.run[c].pc = "set",
                                    !.run[c].cur = IF r.err = NoErr THEN DecodeID(r.val[1])
                                                                   ELSE 0]
    /\ UNCHANGED ret
    /\ UNCHANGED <<impl, target, shareVars, memVars, lockVars, mgrVars, out, zsetVars, hashVars, kv, kvVer, kvWriter, kvTx>>

\* currentValue.ID++; tx.Set(currentValue)
ClientSet(c) ==
    /\ client.run[c].pc = "set"
    /\ kvTx' = [kvTx EXCEPT ![c] = KVTxSetBody(kvTx[c], EncodeID(client.run[c].cur + 1))]
    /\ client' = [client EXCEPT !.run[c].pc = "commit"]
    /\ UNCHANGED ret
    /\ UNCHANGED <<impl, target, shareVars, memVars, lockVars, mgrVars, out, zsetVars, hashVars, kv, kvVer, kvWriter>>

\* err = tx.Commit(ctx): success ends the loop, a conflict starts the next round
ClientCommit(c) ==
    /\ client.run[c].pc = "commit"
    /\ \/ KVTxCommitEvalStep(c)
       \/ KVTxCommitWatchStep(c)
       \/ KVTxCommitCheckStep(c)
       \/ KVTxCommitExecStep(c)
    /\ client' =
         IF kvTx'[c].pc # "idle" THEN client
         ELSE IF ret'.err = NoErr
              THEN [client EXCEPT !.run[c].pc = "ok"]
         ELSE IF ret'.err = ErrTransactionConflict /\ client.run[c].i + 1 < maxRetries
              THEN [client EXCEPT !.run[c].pc = "begin", !.run[c].i = @ + 1]
         ELSE [client EXCEPT !.run[c].pc = "giveup"]

NextCounter ==
    \/ \E c \in KVTxIds : ClientBegin(c)
    \/ \E c \in KVTxIds : ClientGet(c)
    \/ \E c \in KVTxIds : ClientSet(c)
    \/ \E c \in KVTxIds : ClientCommit(c)

-----------------------------------------------------------------------------
(* StorageManager: the registry of named structure instances *)

\* the four maps of a StorageManager: kvs, hashs, zsets, memHashs
RegTypes == {"KV", "Hash", "SortedSet", "MemoryHash"}
RegNames == {"a", "b"}

ErrAlreadyRegistered == "errors.New(storage already registered: name)"
ErrNotRegistered == "errors.New(storage not found: name)"

\* the object a constructor (NewRedisKV, NewRedisHash, NewRedisZSet,
\* NewMemoryStore) returns in the k-th Register call for a type and a name
NewInstance(typ, name, k) == <<typ, name, k>>

\* the Redis key a store made by NewRedisKV, NewRedisHash or NewRedisZSet is
\* bound to: the key argument, for which Register passes name
BackendTypes == {"KV", "Hash", "SortedSet"}
InstanceKey(inst) == inst[2]

RECURSIVE SumCalls(_, _)
SumCalls(calls, S) ==
    IF S = {} THEN 0
    ELSE LET x == CHOOSE y \in S : TRUE IN calls[x[1]][x[2]] + SumCalls(calls, S \ {x})
RegCallsMade == SumCalls(regCalls, RegTypes \X RegNames)

\* (mutant) Register stores the new instance over the one registered before
RegisterBody_Overwrites(r, typ, name, inst) ==
    [reg |-> [r EXCEPT ![typ] = MapSet(@, name, inst)],
     err |-> IF name \in DOMAIN r[typ] THEN ErrAlreadyRegistered ELSE NoErr]

\* the body of the four Register methods, under m.mu.Lock
RegisterBody(r, typ, name, inst) ==
    IF name \in DOMAIN r[typ]
    THEN [reg |-> r, err |-> ErrAlreadyRegistered]
    ELSE [reg |-> [r EXCEPT ![typ] = MapSet(@, name, inst)], err |-> NoErr]

Register(typ, name) ==
    /\ target = "manager"
    /\ RegCallsMade < MaxRegCalls
    /\ LET k == regCalls[typ][name] + 1
           b == RegisterBody(reg, typ, name, NewInstance(typ, name, k))
       IN  /\ reg' = b.reg
           /\ regCalls' = [regCalls EXCEPT ![typ][name] = k]
           /\ out' = Out("Register", <<typ, name>>, Res(b.err, << >>))
    /\ UNCHANGED <<impl, target, shareVars, memVars, lockVars, closeCalls, kvVars, hashVars, zsetVars, ret, client>>

RegisterKVStorage(name) == Register("KV", name)
RegisterHashStorage(name) == Register("Hash", name)
RegisterSortedSetStorage(name) == Register("SortedSet", name)
RegisterMemoryHash(name) == Register("MemoryHash", name)

\* (mutant) every Get looks the name up in kvs
GetResult_FromKVs(r, typ, name) ==
    IF name \in DOMAIN r["KV"] THEN Res(NoErr, <<r["KV"][name]>>)
                               ELSE Res(ErrNotRegistered, << >>)

\* the body of the four Get methods, under m.mu.RLock
GetResult(r, typ, name) ==
    IF name \in DOMAIN r[typ] THEN Res(NoErr, <<r[typ][name]>>)
                              ELSE Res(ErrNotRegistered, << >>)

Get(typ, name) ==
    /\ target = "manager"
    /\ out' = Out("Get", <<typ, name>>, GetResult(reg, typ, name))
    /\ UNCHANGED <<impl, target, shareVars, memVars, lockVars, kvVars, hashVars, zsetVars, ret, client, mgrVars>>

GetKV(name) == Get("KV", name)
GetHash(name) == Get("Hash", name)
GetSortedSet(name) == Get("SortedSet", name)
GetMemoryHash(name) == Get("MemoryHash", name)

\* what Close of the go-redis client returns: nil the first time; the library
\* is not part of the repository, and a later call returns nil or its
\* "client is closed" error
ErrClientClosed == "redis: client is closed"
ClientCloseResults(calls) == IF calls = 0 THEN {NoErr} ELSE {NoErr, ErrClientClosed}

\* StorageManager.Close: the client's Close is called, whatever was called before
Close ==
    /\ target = "manager"
    /\ closeCalls < MaxCloseCalls
    /\ closeCalls' = closeCalls + 1
    /\ \E err \in ClientCloseResults(closeCalls) :
         out' = Out("Close", << >>, Res(err, << >>))
    /\ UNCHANGED <<impl, target, shareVars, memVars, lockVars, kvVars, hashVars, zsetVars, ret, client,
                   reg, regCalls>>

NextManager ==
    \/ Close
    \/ \E name \in RegNames : RegisterKVStorage(name)
    \/ \E name \in RegNames : RegisterHashStorage(name)
    \/ \E name \in RegNames : RegisterSortedSetStorage(name)
    \/ \E name \in RegNames : RegisterMemoryHash(name)
    \/ \E name \in RegNames : GetKV(name)
    \/ \E name \in RegNames : GetHash(name)
    \/ \E name \in RegNames : GetSortedSet(name)
    \/ \E name \in RegNames : GetMemoryHash(name)

\* two sorted-set transactions beside a direct caller: the first buffers adds
\* and removes, the second one, begun while the first is open, removes
ZPairIds == {1, 2}

NextZPair ==
    \/ \E m \in ZMembers, s \in ZScores : ZSetZAdd(m, s)
    \/ \E t \in ZPairIds :
          /\ \A u \in ZPairIds : u < t => zsetTx[u].st = "open"
          /\ ZSetBeginTx(t)
    \/ \E m \in ZMembers, s \in ZScores : ZSetTxZAdd(1, m, s)
    \/ \E t \in ZPairIds, m \in ZMembers : ZSetTxZRem(t, m)
    \/ \E t \in ZPairIds : ZSetTxZRange(t)
    \/ \E t \in ZPairIds : ZSetTxCommit(t)

\* a sorted-set transaction whose elements may have the score NaN, beside a
\* direct caller; no reads, the order sort.Slice gives with NaN is not modelled
NextZNaN ==
    \/ \E m \in ZMembers, s \in ZScores : ZSetZAdd(m, s)
    \/ \E t \in ZSetTxIds : ZSetBeginTx(t)
    \/ \E t \in ZSetTxIds, m \in ZMembers, s \in ZScores \cup {NaN} : ZSetTxZAdd(t, m, s)
    \/ \E t \in ZSetTxIds, m \in ZMembers : ZSetTxZRem(t, m)
    \/ \E t \in ZSetTxIds : ZSetTxCommit(t)
    \/ \E t \in ZSetTxIds : ZSetTxRollback(t)

-----------------------------------------------------------------------------
(* In-memory field map: memoryStore and memoryTx *)

MaxMemWrites == 1
MaxMemOps == 2
MemTxIds == {1, 2}

ErrAnonHashFieldNotFound == "errors.New(hash field not found)"

\* log: history, the HSet calls the transaction accepted, in call order;
\* commitVer: history, the store's version when Commit took effect
MemTxNone ==
    [st |-> "none", snapshot |-> EmptyMap, writes |-> EmptyMap, done |-> FALSE,
     log |-> << >>, beginVer |-> 0, commitVer |-> -1]

\* memoryStore.HSet: the field holds a copy of the value
MemHSet(f, v) ==
    /\ target = "mem"
    /\ memVer < MaxMemWrites
    /\ mem' = MapSet(mem, f, v)
    /\ memVer' = memVer + 1
    /\ UNCHANGED <<impl, target, shareVars, lockVars, mgrVars, out, kvVars, hashVars, zsetVars, ret,
                   client, memTx>>

\* memoryStore.HGet
MemHGetResult(f) ==
    IF f \in DOMAIN mem THEN Res(NoErr, <<mem[f]>>)
                        ELSE Res(ErrAnonHashFieldNotFound, << >>)

MemHGet(f) ==
    /\ target = "mem"
    /\ UNCHANGED <<impl, target, shareVars, memVars, lockVars, mgrVars, out, kvVars, hashVars,
                   zsetVars, ret, client>>

\* memoryStore.BeginTx: the snapshot is a copy of every field, writes is empty
MemNewTx == [MemTxNone EXCEPT !.st = "open", !.snapshot = mem, !.beginVer = memVer]

MemBeginTx(t) ==
    /\ target = "mem"
    /\ memTx[t].st = "none"
    /\ \A u \in MemTxIds : u < t => memTx[u].st = "open"
    /\ memTx' = [memTx EXCEPT ![t] = MemNewTx]
    /\ UNCHANGED <<impl, target, shareVars, lockVars, mgrVars, out, kvVars, hashVars, zsetVars, ret,
                   client, mem, memVer>>

\* memoryTx.HSet: refused once the transaction is done, else writes[field] = value
MemTxHSet(t, f, v) ==
    /\ target = "mem"
    /\ memTx[t].st = "open"
    /\ IF memTx[t].done
       THEN /\ ret' = Ret(t, ErrFinished)
            /\ UNCHANGED memTx
       ELSE /\ Len(memTx[t].log) < MaxMemOps
            /\ memTx' = [memTx EXCEPT ![t].writes = MapSet(@, f, v),
                                      ![t].log = Append(@, <<f, v>>)]
            /\ ret' = Ret(t, NoErr)
    /\ UNCHANGED <<impl, target, shareVars, lockVars, mgrVars, out, kvVars, hashVars, zsetVars,
                   client, mem, memVer>>

\* memoryTx.HGet: writes first, then the snapshot; the store is not read
MemTxHGetResult(tx, f) ==
    IF f \in DOMAIN tx.writes THEN Res(NoErr, <<tx.writes[f]>>)
    ELSE IF f \in DOMAIN tx.snapshot THEN Res(NoErr, <<tx.snapshot[f]>>)
    ELSE Res(ErrAnonHashFieldNotFound, << >>)

MemTxHGet(t, f) ==
    /\ target = "mem"
    /\ memTx[t].st = "open"
    /\ UNCHANGED <<impl, target, shareVars, memVars, lockVars, mgrVars, out, kvVars, hashVars,
                   zsetVars, ret, client>>

\* (mutant) Commit puts the writes on the snapshot and stores the result
MemCommitData_OnSnapshot(data, tx) ==
    [f \in (DOMAIN tx.snapshot) \cup (DOMAIN tx.writes) |->
        IF f \in DOMAIN tx.writes THEN tx.writes[f] ELSE tx.snapshot[f]]

\* memoryTx.Commit, the loop: base.data[k] = v.Copy() for every k, v of writes
MemCommitData(data, tx) ==
    [f \in (DOMAIN data) \cup (DOMAIN tx.writes) |->
        IF f \in DOMAIN tx.writes THEN tx.writes[f] ELSE data[f]]

\* (mutant) Commit does not test tx.done
MemTxCommit_NoDoneTest(t) ==
    /\ target = "mem"
    /\ memTx[t].st = "open"
    /\ mem' = MemCommitData(mem, memTx[t])
    /\ memVer' = memVer
    /\ memTx' = [memTx EXCEPT ![t].done = TRUE, ![t].commitVer = memVer]
    /\ ret' = Ret(t, NoErr)
    /\ UNCHANGED <<impl, target, shareVars, lockVars, mgrVars, out, kvVars, hashVars, zsetVars, client>>

\* memoryTx.Commit: nothing when done; else the writes go to the store under
\* its lock and the transaction is done. It returns no value.
MemTxCommit(t) ==
    /\ target = "mem"
    /\ memTx[t].st = "open"
    /\ IF memTx[t].done
       THEN UNCHANGED <<mem, memVer, memTx>>
       ELSE /\ mem' = MemCommitData(mem, memTx[t])
            /\ memVer' = memVer
            /\ memTx' = [memTx EXCEPT ![t].done = TRUE, ![t].commitVer = memVer]
    /\ ret' = Ret(t, NoErr)
    /\ UNCHANGED <<impl, target, shareVars, lockVars, mgrVars, out, kvVars, hashVars, zsetVars, client>>

\* memoryTx.Rollback
MemTxRollback(t) ==
    /\ target = "mem"
    /\ memTx[t].st = "open"
    /\ memTx' = [memTx EXCEPT ![t].done = TRUE]
    /\ UNCHANGED <<impl, target, shareVars, lockVars, mgrVars, out, kvVars, hashVars, zsetVars, ret,
                   client, mem, memVer>>

NextMem ==
    \/ \E f \in HFields, v \in HPayloads : MemHSet(f, v)
    \/ \E f \in HFields : MemHGet(f)
    \/ \E t \in MemTxIds : MemBeginTx(t)
    \/ \E t \in MemTxIds, f \in HFields, v \in HPayloads : MemTxHSet(t, f, v)
    \/ \E t \in MemTxIds, f \in HFields : MemTxHGet(t, f)
    \/ \E t \in MemTxIds : MemTxCommit(t)
    \/ \E t \in MemTxIds : MemTxRollback(t)

-----------------------------------------------------------------------------
(* memoryStore.mu: Commit, BeginTx and HSet statement by statement *)

\* Transaction 1 holds buffered writes and commits; transaction 2 is the one
\* BeginTx makes. mu is the store's RWMutex, reader "b" being the BeginTx call.
\* thr: where the Commit call is (cpc), the keys its loop has still to visit
\* (ctodo) and has written (applied); where the BeginTx call is (bpc), the keys
\* its loop has still to copy (btodo) and the map copied so far (bsnap).
MemStepFrame ==
    UNCHANGED <<impl, target, shareVars, mgrVars, out, kvVars, hashVars, zsetVars, ret, client>>

\* memoryTx.Commit up to tx.base.mu.Lock(): nothing to do when done
MemCommitLock ==
    /\ thr.cpc = "idle" /\ ~memTx[1].done
    /\ mu.writer = 0 /\ mu.readers = {}
    /\ mu' = [mu EXCEPT !.writer = 1]
    /\ thr' = [thr EXCEPT !.cpc = "loop", !.ctodo = DOMAIN memTx[1].writes]
    /\ UNCHANGED memVars
    /\ MemStepFrame

\* one round of the loop: tx.base.data[k] = v.Copy(); a map is ranged over in
\* any order
MemCommitWrite(k) ==
    /\ thr.cpc = "loop" /\ k \in thr.ctodo
    /\ mem' = MapSet(mem, k, memTx[1].writes[k])
    /\ thr' = [thr EXCEPT !.ctodo = @ \ {k}, !.applied = @ \cup {k}]
    /\ UNCHANGED <<mu, memVer, memTx>>
    /\ MemStepFrame

\* tx.base.mu.Unlock(); tx.done = true
MemCommitUnlock ==
    /\ thr.cpc = "loop" /\ thr.ctodo = {}
    /\ mu' = [mu EXCEPT !.writer = 0]
    /\ thr' = [thr EXCEPT !.cpc = "idle"]
    /\ memTx' = [memTx EXCEPT ![1].done = TRUE, ![1].commitVer = memVer]
    /\ UNCHANGED <<mem, memVer>>
    /\ MemStepFrame

\* (mutant) BeginTx does not take the store's lock
MemBeginRLock_NoWait ==
    /\ thr.bpc = "idle" /\ memTx[2].st = "none"
    /\ mu' = [mu EXCEPT !.readers = @ \cup {"b"}]
    /\ thr' = [thr EXCEPT !.bpc = "loop", !.btodo = DOMAIN mem, !.bsnap = EmptyMap]
    /\ UNCHANGED memVars
    /\ MemStepFrame

\* memoryStore.BeginTx: s.mu.RLock() waits while a writer holds the lock
MemBeginRLock ==
    /\ thr.bpc = "idle" /\ memTx[2].st = "none"
    /\ mu.writer = 0
    /\ mu' = [mu EXCEPT !.readers = @ \cup {"b"}]
    /\ thr' = [thr EXCEPT !.bpc = "loop", !.btodo = DOMAIN mem, !.bsnap = EmptyMap]
    /\ UNCHANGED memVars
    /\ MemStepFrame

\* one round of the loop: snap[k] = v.Copy()
MemBeginCopy(k) ==
    /\ thr.bpc = "loop" /\ k \in thr.btodo
    /\ thr' = [thr EXCEPT !.btodo = @ \ {k},
                          !.bsnap = IF k \in DOMAIN mem THEN MapSet(@, k, mem[k]) ELSE @]
    /\ UNCHANGED <<mu, memVars>>
    /\ MemStepFrame

\* return &memoryTx{...}, and the deferred s.mu.RUnlock()
MemBeginRUnlock ==
    /\ thr.bpc = "loop" /\ thr.btodo = {}
    /\ mu' = [mu EXCEPT !.readers = @ \ {"b"}]
    /\ thr' = [thr EXCEPT !.bpc = "idle"]
    /\ memTx' = [memTx EXCEPT ![2] = [MemNewTx EXCEPT !.snapshot = thr.bsnap]]
    /\ UNCHANGED <<mem, memVer>>
    /\ MemStepFrame

\* memoryStore.HSet: Lock, data[field] = value.Copy(), Unlock; one step, the
\* lock being held for the one assignment
MemHSetLocked(f, v) ==
    /\ thr.cpc \in {"idle", "loop"}
    /\ mu.writer = 0 /\ mu.readers = {}
    /\ memVer < MaxMemWrites
    /\ mem' = MapSet(mem, f, v)
    /\ memVer' = memVer + 1
    /\ UNCHANGED <<mu, thr, memTx>>
    /\ MemStepFrame

NextMemSteps ==
    \/ MemCommitLock
    \/ \E k \in HFields : MemCommitWrite(k)
    \/ MemCommitUnlock
    \/ MemBeginRLock
    \/ \E k \in HFields : MemBeginCopy(k)
    \/ MemBeginRUnlock
    \/ \E f \in HFields, v \in HPayloads : MemHSetLocked(f, v)

-----------------------------------------------------------------------------
(* The mutex of a transaction: which steps of each method hold it *)

Goroutines == {1, 2}

\* a step of a method: a call on tx.mu, or a read or a write of a field of tx
LockOp == [op |-> "Lock", field |-> "mu"]
UnlockOp == [op |-> "Unlock", field |-> "mu"]
RLockOp == [op |-> "RLock", field |-> "mu"]
RUnlockOp == [op |-> "RUnlock", field |-> "mu"]
ReadOf(field) == [op |-> "read", field |-> field]
WriteOf(field) == [op |-> "write", field |-> field]

\* inMemoryKVTx: the steps of each method in program order, on the path that
\* runs to the end of the method
KVMethodSteps(method) ==
    CASE method = "Set" ->
           <<LockOp, WriteOf("write"), WriteOf("written"), UnlockOp>>
      [] method = "Get" ->
           <<RLockOp, ReadOf("snapshot"), ReadOf("written"), ReadOf("write"), RUnlockOp>>
      [] method = "Commit" /\ impl = "eval" ->
           <<LockOp, ReadOf("done"), WriteOf("done"), ReadOf("written"), ReadOf("snapshot"),
             ReadOf("write"), UnlockOp>>
      [] method = "Commit" /\ impl = "watch" ->
           <<LockOp, ReadOf("done"), ReadOf("written"), ReadOf("snapshot"), ReadOf("write"),
             WriteOf("done"), UnlockOp>>
      [] method = "Rollback" -> <<LockOp, WriteOf("done"), UnlockOp>>

\* inMemoryHashTx: HGet and HGetAll of the WATCH build make no call on tx.mu
HashMethodSteps(method) ==
    CASE method \in {"HSet", "HDel"} -> <<LockOp, WriteOf("opQueue"), UnlockOp>>
      [] method = "HGet" /\ impl = "watch" -> <<ReadOf("snapshot"), ReadOf("opQueue")>>
      [] method = "HGet" /\ impl = "eval" ->
           <<LockOp, ReadOf("opQueue"), ReadOf("snapshot"), UnlockOp>>
      [] method = "HGetAll" /\ impl = "watch" -> <<ReadOf("snapshot"), ReadOf("opQueue")>>
      [] method = "HGetAll" /\ impl = "eval" ->
           <<LockOp, ReadOf("snapshot"), ReadOf("opQueue"), UnlockOp>>
      [] method = "Commit" /\ impl = "watch" ->
           <<LockOp, ReadOf("done"), ReadOf("opQueue"), ReadOf("snapshot"), ReadOf("opQueue"),
             WriteOf("done"), UnlockOp>>
      [] method = "Commit" /\ impl = "eval" ->
           <<LockOp, ReadOf("done"), WriteOf("done"), ReadOf("opQueue"), UnlockOp>>
      [] method = "Rollback" -> <<LockOp, WriteOf("done"), UnlockOp>>

\* inMemoryZSetTx: the reads lock inside applyOps(true), the trims call
\* applyOps(false) with the lock held
ZSetMethodSteps(method) ==
    CASE method \in {"ZAdd", "ZRem"} -> <<LockOp, WriteOf("ops"), UnlockOp>>
      [] method \in {"ZRange", "ZRevRangeByScore"} ->
           <<RLockOp, ReadOf("snapshot"), ReadOf("ops"), RUnlockOp>>
      [] method \in {"ZTrimByTopN", "ZRevTrimByTopN"} ->
           <<LockOp, ReadOf("snapshot"), ReadOf("ops"), WriteOf("ops"), UnlockOp>>
      [] method = "Commit" ->
           <<LockOp, ReadOf("done"), WriteOf("done"), ReadOf("ops"), UnlockOp>>
      [] method = "Rollback" -> <<LockOp, WriteOf("done"), UnlockOp>>

\* memoryTx
MemMethodSteps(method) ==
    CASE method = "HSet" -> <<LockOp, ReadOf("done"), WriteOf("writes"), UnlockOp>>
      [] method = "HGet" -> <<RLockOp, ReadOf("writes"), ReadOf("snapshot"), RUnlockOp>>
      [] method = "Commit" ->
           <<LockOp, ReadOf("done"), ReadOf("writes"), WriteOf("done"), UnlockOp>>
      [] method = "Rollback" -> <<LockOp, WriteOf("done"), UnlockOp>>

Methods ==
    CASE target = "kv" -> {"Set", "Get", "Commit", "Rollback"}
      [] target = "hash" -> {"HSet", "HGet", "HGetAll", "HDel", "Commit", "Rollback"}
      [] target = "zset" -> {"ZAdd", "ZRem", "ZRange", "ZRevRangeByScore", "ZTrimByTopN",
                             "ZRevTrimByTopN", "Commit", "Rollback"}
      [] target = "mem" -> {"HSet", "HGet", "Commit", "Rollback"}
      [] OTHER -> {}

AllMethods ==
    {"Set", "Get", "HSet", "HGet", "HGetAll", "HDel", "ZAdd", "ZRem", "ZRange",
     "ZRevRangeByScore", "ZTrimByTopN", "ZRevTrimByTopN", "Commit", "Rollback"}

MethodSteps(method) ==
    CASE target = "kv" -> KVMethodSteps(method)
      [] target = "hash" -> HashMethodSteps(method)
      [] target = "zset" -> ZSetMethodSteps(method)
      [] target = "mem" -> MemMethodSteps(method)

ThrIdle == [method |-> "none", pc |-> 0]

\* the step goroutine g is about to take
AtStep(g) ==
    IF thr[g].pc = 0 THEN [op |-> "none", field |-> "none"]
                     ELSE MethodSteps(thr[g].method)[thr[g].pc]

\* after a step: the next one, or the method has returned
Advance(g) ==
    IF thr[g].pc = Len(MethodSteps(thr[g].method))
    THEN [thr EXCEPT ![g] = ThrIdle]
    ELSE [thr EXCEPT ![g].pc = @ + 1]

LockFrame ==
    UNCHANGED <<impl, target, shareVars, memVars, mgrVars, out, kvVars, hashVars, zsetVars, ret, client>>

\* a goroutine calls a method of the transaction
TxCall(g, method) ==
    /\ thr[g].pc = 0
    /\ method \in Methods
    /\ thr' = [thr EXCEPT ![g] = [method |-> method, pc |-> 1]]
    /\ UNCHANGED mu
    /\ LockFrame

\* sync.RWMutex.Lock: waits until no goroutine holds the mutex
MuLock(g) ==
    /\ AtStep(g).op = "Lock"
    /\ mu.writer = 0 /\ mu.readers = {}
    /\ mu' = [mu EXCEPT !.writer = g]
    /\ thr' = Advance(g)
    /\ LockFrame

MuUnlock(g) ==
    /\ AtStep(g).op = "Unlock"
    /\ mu' = [mu EXCEPT !.writer = 0]
    /\ thr' = Advance(g)
    /\ LockFrame

\* sync.RWMutex.RLock: waits while a goroutine holds the mutex for writing
MuRLock(g) ==
    /\ AtStep(g).op = "RLock"
    /\ mu.writer = 0
    /\ mu' = [mu EXCEPT !.readers = @ \cup {g}]
    /\ thr' = Advance(g)
    /\ LockFrame

MuRUnlock(g) ==
    /\ AtStep(g).op = "RUnlock"
    /\ mu' = [mu EXCEPT !.readers = @ \ {g}]
    /\ thr' = Advance(g)
    /\ LockFrame

\* a read or a write of a field of the transaction
TxAccess(g) ==
    /\ AtStep(g).op \in {"read", "write"}
    /\ thr' = Advance(g)
    /\ UNCHANGED mu
    /\ LockFrame

NextLocks ==
    \/ \E g \in Goroutines, method \in AllMethods : TxCall(g, method)
    \/ \E g \in Goroutines : MuLock(g)
    \/ \E g \in Goroutines : MuUnlock(g)
    \/ \E g \in Goroutines : MuRLock(g)
    \/ \E g \in Goroutines : MuRUnlock(g)
    \/ \E g \in Goroutines : TxAccess(g)

-----------------------------------------------------------------------------
(* StorageManager.mu: Register and Get statement by statement *)

\* Goroutines call Register and Get on one manager. mu is the manager's
\* RWMutex; thr[g] is the call goroutine g is in and the statement it is at.
\* regCalls counts the instances the constructors made for a type and a name;
\* client is the history of the calls that returned, in the order of return.
MaxMgrCalls == 3

MgrIdle == [pc |-> "idle", op |-> "none", typ |-> "", name |-> "", res |-> Res(NoErr, << >>)]

MgrStepFrame ==
    UNCHANGED <<impl, target, shareVars, memVars, closeCalls, out, kvVars, hashVars, zsetVars, ret>>

MgrCallsBegun == Len(client) + Cardinality({g \in Goroutines : thr[g].pc # "idle"})

\* (mutant) Register does not take the manager's lock
MgrRegisterLock_NoWait(g, typ, name) ==
    /\ thr[g].pc = "idle"
    /\ MgrCallsBegun < MaxMgrCalls
    /\ mu' = [mu EXCEPT !.writer = g]
    /\ thr' = [thr EXCEPT ![g] = [MgrIdle EXCEPT !.pc = "test", !.op = "Register",
                                               !.typ = typ, !.name = name]]
    /\ UNCHANGED <<reg, regCalls, client>>
    /\ MgrStepFrame

\* Register<Type>(name): m.mu.Lock()
MgrRegisterLock(g, typ, name) ==
    /\ thr[g].pc = "idle"
    /\ MgrCallsBegun < MaxMgrCalls
    /\ mu.writer = 0 /\ mu.readers = {}
    /\ mu' = [mu EXCEPT !.writer = g]
    /\ thr' = [thr EXCEPT ![g] = [MgrIdle EXCEPT !.pc = "test", !.op = "Register",
                                               !.typ = typ, !.name = name]]
    /\ UNCHANGED <<reg, regCalls, client>>
    /\ MgrStepFrame

\* if _, exists := m.<map>[name]; exists { return errors.New(...) }
MgrRegisterTest(g) ==
    /\ thr[g].pc = "test"
    /\ thr' = IF thr[g].name \in DOMAIN reg[thr[g].typ]
              THEN [thr EXCEPT ![g].pc = "unlock",
                               ![g].res = Res(ErrAlreadyRegistered, << >>)]
              ELSE [thr EXCEPT ![g].pc = "store"]
    /\ UNCHANGED <<mu, reg, regCalls, client>>
    /\ MgrStepFrame

\* m.<map>[name] = New...(m.redisClient, name); return nil
MgrRegisterStore(g) ==
    /\ thr[g].pc = "store"
    /\ LET typ == thr[g].typ
           name == thr[g].name
           inst == NewInstance(typ, name, regCalls[typ][name] + 1)
       IN  /\ reg' = [reg EXCEPT ![typ] = MapSet(@, name, inst)]
           /\ regCalls' = [regCalls EXCEPT ![typ][name] = @ + 1]
           /\ thr' = [thr EXCEPT ![g].pc = "unlock", ![g].res = Res(NoErr, <<inst>>)]
    /\ UNCHANGED <<mu, client>>
    /\ MgrStepFrame

\* the deferred m.mu.Unlock(); the call returns
MgrRegisterUnlock(g) ==
    /\ thr[g].pc = "unlock"
    /\ mu' = [mu EXCEPT !.writer = 0]
    /\ client' = Append(client, [thr[g] EXCEPT !.pc = "returned"])
    /\ thr' = [thr EXCEPT ![g] = MgrIdle]
    /\ UNCHANGED <<reg, regCalls>>
    /\ MgrStepFrame

\* Get<Type>(name): m.mu.RLock()
MgrGetRLock(g, typ, name) ==
    /\ thr[g].pc = "idle"
    /\ MgrCallsBegun < MaxMgrCalls
    /\ mu.writer = 0
    /\ mu' = [mu EXCEPT !.readers = @ \cup {g}]
    /\ thr' = [thr EXCEPT ![g] = [MgrIdle EXCEPT !.pc = "lookup", !.op = "Get",
                                               !.typ = typ, !.name = name]]
    /\ UNCHANGED <<reg, regCalls, client>>
    /\ MgrStepFrame

\* if s, ok := m.<map>[name]; ok { return s, nil }; return nil, errors.New(...)
MgrGetLookup(g) ==
    /\ thr[g].pc = "lookup"
    /\ thr' = [thr EXCEPT ![g].pc = "runlock",
                          ![g].res = GetResult(reg, thr[g].typ, thr[g].name)]
    /\ UNCHANGED <<mu, reg, regCalls, client>>
    /\ MgrStepFrame

\* the deferred m.mu.RUnlock(); the call returns
MgrGetRUnlock(g) ==
    /\ thr[g].pc = "runlock"
    /\ mu' = [mu EXCEPT !.readers = @ \ {g}]
    /\ client' = Append(client, [thr[g] EXCEPT !.pc = "returned"])
    /\ thr' = [thr EXCEPT ![g] = MgrIdle]
    /\ UNCHANGED <<reg, regCalls>>
    /\ MgrStepFrame

NextMgrSteps ==
    \/ \E g \in Goroutines, typ \in RegTypes, name \in RegNames : MgrRegisterLock(g, typ, name)
    \/ \E g \in Goroutines : MgrRegisterTest(g)
    \/ \E g \in Goroutines : MgrRegisterStore(g)
    \/ \E g \in Goroutines : MgrRegisterUnlock(g)
    \/ \E g \in Goroutines, typ \in RegTypes, name \in RegNames : MgrGetRLock(g, typ, name)
    \/ \E g \in Goroutines : MgrGetLookup(g)
    \/ \E g \in Goroutines : MgrGetRUnlock(g)

-----------------------------------------------------------------------------
(* share-db: redisDB, and the transaction txDB that BeginTx returns *)

MaxShareOps == 2
MaxShareWrites == 1

ShareKeys == {"k"}

ErrCanceled == "context.Canceled"
ErrEmptyKeyValue == "key is empty"
ErrTxFinished == "transaction has been committed or rolled back"
ErrUnsupportedType == "json: unsupported type"
ErrJSONSyntax == "json: syntax error"
ErrJSONType == "json: cannot unmarshal into Go value of that type"
ErrWrongType == "WRONGTYPE Operation against a key holding the wrong kind of value"

\* Go values passed as `value any`: kind is the Go type, val the value written
\* out; a channel is a value json.Marshal refuses
GoValue(kind, val) == [kind |-> kind, val |-> val]
GoNil == GoValue("nil", "")
ShareValues == {GoValue("int", "1"), GoValue("string", "a"), GoValue("string", "1"),
                GoValue("chan", "")}
ShareMapValues == {GoValue("int", "1"), GoValue("string", "a")}
\* the kinds of variable a caller passes as `result any`: *int, *string, *any
ResultKinds == {"int", "string", "any"}

\* json.Marshal: a number is its digits, a string is quoted
jsonMarshal(v) ==
    IF v.kind \in {"int", "float64"} THEN Res(NoErr, <<v.val>>)
    ELSE IF v.kind = "string" THEN Res(NoErr, <<"\"" \o v.val \o "\"">>)
    ELSE Res(ErrUnsupportedType, << >>)

\* json.Unmarshal(data, result): the text is parsed, and the value must fit the
\* variable; into an `any` a number comes out as a float64
jsonUnmarshal(data, kind) ==
    LET vs == {v \in ShareValues : /\ jsonMarshal(v).err = NoErr
                                   /\ jsonMarshal(v).val[1] = data}
    IN  IF vs = {} THEN Res(ErrJSONSyntax, << >>)
        ELSE LET v == CHOOSE x \in vs : TRUE
             IN  IF kind = "any"
                 THEN Res(NoErr, <<IF v.kind = "int" THEN GoValue("float64", v.val) ELSE v>>)
                 ELSE IF kind = v.kind THEN Res(NoErr, <<v>>)
                 ELSE Res(ErrJSONType, << >>)

MapMerge(a, b) == [x \in (DOMAIN a) \cup (DOMAIN b) |-> IF x \in DOMAIN b THEN b[x] ELSE a[x]]
MapWithout(m, S) == [x \in (DOMAIN m) \ S |-> m[x]]

\* what the Redis server holds under a key: nothing, a string or a hash
RNone == [typ |-> "none", str |-> "", fields |-> EmptyMap]
RString(data) == [typ |-> "string", str |-> data, fields |-> EmptyMap]
RHash(fields) == [typ |-> "hash", str |-> "", fields |-> fields]

\* the commands a pipeline queues
PipeSet(key, data) == [cmd |-> "SET", key |-> key, val |-> data, fields |-> EmptyMap, names |-> {}]
PipeHSet(key, fields) == [cmd |-> "HSET", key |-> key, val |-> "", fields |-> fields, names |-> {}]
PipeHDel(key, names) == [cmd |-> "HDEL", key |-> key, val |-> "", fields |-> EmptyMap, names |-> names]
PipeDel(key) == [cmd |-> "DEL", key |-> key, val |-> "", fields |-> EmptyMap, names |-> {}]

\* one command on the server: SET replaces whatever the key holds, HSET and
\* HDEL are refused on a string, a hash without fields is no key
RedisRun(data, c) ==
    LET k == data[c.key]
    IN  IF c.cmd = "SET" THEN [data |-> [data EXCEPT ![c.key] = RString(c.val)], err |-> NoErr]
        ELSE IF c.cmd = "DEL" THEN [data |-> [data EXCEPT ![c.key] = RNone], err |-> NoErr]
        ELSE IF k.typ = "string" THEN [data |-> data, err |-> ErrWrongType]
        ELSE IF c.cmd = "HSET"
        THEN [data |-> [data EXCEPT ![c.key] = RHash(MapMerge(k.fields, c.fields))],
              err |-> NoErr]
        ELSE LET m == MapWithout(k.fields, c.names)
             IN  [data |-> [data EXCEPT ![c.key] = IF DOMAIN m = {} THEN RNone ELSE RHash(m)],
                  err |-> NoErr]

\* TxPipeline.Exec: MULTI, the queued commands in order, EXEC; a command that
\* fails does not stop the ones after it, and Exec returns the first error
RECURSIVE PipeExec(_, _)
PipeExec(data, pipe) ==
    IF pipe = << >> THEN [data |-> data, err |-> NoErr]
    ELSE LET r == RedisRun(data, Head(pipe))
             rest == PipeExec(r.data, Tail(pipe))
         IN  [data |-> rest.data, err |-> IF r.err # NoErr THEN r.err ELSE rest.err]

\* last: history, the last Set or Delete the transaction accepted for a key
TxDBLastNone == [op |-> "none", value |-> GoNil]

\* newTxDB
TxDBNew ==
    [finished |-> FALSE, released |-> FALSE, pipe |-> << >>,
     cache |-> EmptyMap, mapCache |-> EmptyMap, deleted |-> {}, deletedFields |-> EmptyMap,
     last |-> [k \in ShareKeys |-> TxDBLastNone]]

ShareFrame ==
    UNCHANGED <<impl, target, kvVars, hashVars, zsetVars, ret, client, mgrVars, memVars,
                lockVars>>

\* (mutant) checkState without the test of tx.finished
checkState_ClosedOnly == IF db.closed THEN ErrCanceled ELSE NoErr

\* txDB.checkState
checkState ==
    IF db.closed THEN ErrCanceled
    ELSE IF txDB.finished THEN ErrTxFinished
    ELSE NoErr

\* txDB.Set
TxDBSet(key, value) ==
    /\ target = "share"
    /\ Len(txDB.pipe) < MaxShareOps
    /\ LET err == checkState
           m == jsonMarshal(value)
       IN  IF err # NoErr
           THEN /\ out' = Out("Set", <<key>>, Res(err, << >>))
                /\ UNCHANGED txDB
           ELSE IF m.err # NoErr
           THEN /\ out' = Out("Set", <<key>>, Res(m.err, << >>))
                /\ UNCHANGED txDB
           ELSE /\ txDB' = [txDB EXCEPT !.cache = MapSet(@, key, m.val[1]),
                                        !.deleted = @ \ {key},
                                        !.pipe = Append(@, PipeSet(key, m.val[1])),
                                        !.last[key] = [op |-> "Set", value |-> value]]
                /\ out' = Out("Set", <<key>>, Res(NoErr, << >>))
    /\ UNCHANGED db
    /\ ShareFrame

\* what GET on the server gives txDB.Get and redisDB.Get: redis.Nil leaves the
\* result as it is and returns nil
ClientGetResult(key, kind) ==
    IF db.data[key].typ = "none" THEN Res(NoErr, << >>)
    ELSE IF db.data[key].typ = "hash" THEN Res(ErrWrongType, << >>)
    ELSE jsonUnmarshal(db.data[key].str, kind)

\* (mutant) Get asks the server whatever the transaction holds
TxDBGetResult_ReadsBackend(key, kind) ==
    IF checkState # NoErr THEN Res(checkState, << >>)
    ELSE ClientGetResult(key, kind)

\* txDB.Get
TxDBGetResult(key, kind) ==
    IF checkState # NoErr THEN Res(checkState, << >>)
    ELSE IF key \in txDB.deleted THEN Res(ErrEmptyKeyValue, << >>)
    ELSE IF key \in DOMAIN txDB.cache THEN jsonUnmarshal(txDB.cache[key], kind)
    ELSE ClientGetResult(key, kind)

TxDBGet(key, kind) ==
    /\ target = "share"
    /\ out' = Out("Get", <<key>>, TxDBGetResult(key, kind))
    /\ UNCHANGED <<db, txDB>>
    /\ ShareFrame

\* txDB.SetMap with values json.Marshal accepts
TxDBSetMap(key, value) ==
    /\ target = "share"
    /\ Len(txDB.pipe) < MaxShareOps
    /\ LET err == checkState
           fields == [k \in DOMAIN value |-> jsonMarshal(value[k]).val[1]]
           cached == IF key \in DOMAIN txDB.mapCache THEN txDB.mapCache[key] ELSE EmptyMap
       IN  IF err # NoErr
           THEN /\ out' = Out("SetMap", <<key>>, Res(err, << >>))
                /\ UNCHANGED txDB
           ELSE /\ txDB' = [txDB EXCEPT
                              !.mapCache = MapSet(@, key, MapMerge(cached, fields)),
                              !.deletedFields =
                                  IF key \in DOMAIN @
                                  THEN MapSet(@, key, @[key] \ DOMAIN value) ELSE @,
                              !.pipe = Append(@, PipeHSet(key, fields))]
                /\ out' = Out("SetMap", <<key>>, Res(NoErr, << >>))
    /\ UNCHANGED db
    /\ ShareFrame

\* txDB.RangeMap with a handler that returns nil: the fields it visits, each
\* parsed into an `any`; a value that does not parse is skipped
TxDBRangeMapResult(key) ==
    IF checkState # NoErr THEN Res(checkState, << >>)
    ELSE IF key \in txDB.deleted THEN Res(ErrEmptyKeyValue, << >>)
    ELSE IF db.data[key].typ = "string" THEN Res(ErrWrongType, << >>)
    ELSE LET cached == IF key \in DOMAIN txDB.mapCache THEN txDB.mapCache[key] ELSE EmptyMap
             gone == IF key \in DOMAIN txDB.deletedFields THEN txDB.deletedFields[key] ELSE {}
             mergedFields == MapWithout(MapMerge(db.data[key].fields, cached), gone)
             ok == {k \in DOMAIN mergedFields : jsonUnmarshal(mergedFields[k], "any").err = NoErr}
         IN  Res(NoErr, <<[k \in ok |-> jsonUnmarshal(mergedFields[k], "any").val[1]]>>)

TxDBRangeMap(key) ==
    /\ target = "share"
    /\ out' = Out("RangeMap", <<key>>, TxDBRangeMapResult(key))
    /\ UNCHANGED <<db, txDB>>
    /\ ShareFrame

\* txDB.DeleteMapField
TxDBDeleteMapField(key, fields) ==
    /\ target = "share"
    /\ Len(txDB.pipe) < MaxShareOps
    /\ LET err == checkState
           gone == IF key \in DOMAIN txDB.deletedFields THEN txDB.deletedFields[key] ELSE {}
       IN  IF err # NoErr
           THEN /\ out' = Out("DeleteMapField", <<key>>, Res(err, << >>))
                /\ UNCHANGED txDB
           ELSE /\ txDB' = [txDB EXCEPT
                              !.deletedFields = MapSet(@, key, gone \cup fields),
                              !.mapCache =
                                  IF key \in DOMAIN @
                                  THEN MapSet(@, key, MapWithout(@[key], fields)) ELSE @,
                              !.pipe = Append(@, PipeHDel(key, fields))]
                /\ out' = Out("DeleteMapField", <<key>>, Res(NoErr, << >>))
    /\ UNCHANGED db
    /\ ShareFrame

\* txDB.Delete
TxDBDelete(key) ==
    /\ target = "share"
    /\ Len(txDB.pipe) < MaxShareOps
    /\ LET err == checkState
       IN  IF err # NoErr
           THEN /\ out' = Out("Delete", <<key>>, Res(err, << >>))
                /\ UNCHANGED txDB
           ELSE /\ txDB' = [txDB EXCEPT !.deleted = @ \cup {key},
                                        !.cache = MapDel(@, key),
                                        !.mapCache = MapDel(@, key),
                                        !.deletedFields = MapDel(@, key),
                                        !.pipe = Append(@, PipeDel(key)),
                                        !.last[key] = [op |-> "Delete", value |-> GoNil]]
                /\ out' = Out("Delete", <<key>>, Res(NoErr, << >>))
    /\ UNCHANGED db
    /\ ShareFrame

\* txDB.cleanup: the pipeline and the four maps are set to nil
cleanup(tx) ==
    [tx EXCEPT !.released = TRUE, !.pipe = << >>, !.cache = EmptyMap,
               !.mapCache = EmptyMap, !.deleted = {}, !.deletedFields = EmptyMap]

\* txDB.Commit: finished is set whatever Exec returns
TxDBCommit ==
    /\ target = "share"
    /\ LET err == checkState
           r == PipeExec(db.data, txDB.pipe)
       IN  IF err # NoErr
           THEN /\ out' = Out("Commit", << >>, Res(err, << >>))
                /\ UNCHANGED <<db, txDB>>
           ELSE /\ db' = [db EXCEPT !.data = r.data]
                /\ txDB' = cleanup([txDB EXCEPT !.finished = TRUE])
                /\ out' = Out("Commit", << >>, Res(r.err, << >>))
    /\ ShareFrame

\* txDB.Rollback: Discard drops the queue
TxDBRollback ==
    /\ target = "share"
    /\ LET err == checkState
       IN  IF err # NoErr
           THEN /\ out' = Out("Rollback", << >>, Res(err, << >>))
                /\ UNCHANGED txDB
           ELSE /\ txDB' = cleanup([txDB EXCEPT !.finished = TRUE])
                /\ out' = Out("Rollback", << >>, Res(NoErr, << >>))
    /\ UNCHANGED db
    /\ ShareFrame

\* redisDB.Close: closed.CompareAndSwap(false, true)
DBClose ==
    /\ target = "share"
    /\ db' = [db EXCEPT !.closed = TRUE]
    /\ UNCHANGED <<txDB, out>>
    /\ ShareFrame

\* redisDB.Set, a direct caller beside the transaction
DBSet(key, value) ==
    /\ target = "share"
    /\ db.writes < MaxShareWrites
    /\ ~db.closed
    /\ jsonMarshal(value).err = NoErr
    /\ db' = [db EXCEPT !.data[key] = RString(jsonMarshal(value).val[1]), !.writes = @ + 1]
    /\ UNCHANGED <<txDB, out>>
    /\ ShareFrame

\* the non-empty maps SetMap is called with, and the non-empty field lists
ShareMaps == UNION {[D -> ShareMapValues] : D \in (SUBSET HFields) \ {{}}}
ShareFieldSets == (SUBSET HFields) \ {{}}

NextShare ==
    \/ \E key \in ShareKeys, value \in ShareValues : TxDBSet(key, value)
    \/ \E key \in ShareKeys, kind \in ResultKinds : TxDBGet(key, kind)
    \/ \E key \in ShareKeys, value \in ShareMaps : TxDBSetMap(key, value)
    \/ \E key \in ShareKeys : TxDBRangeMap(key)
    \/ \E key \in ShareKeys, fields \in ShareFieldSets : TxDBDeleteMapField(key, fields)
    \/ \E key \in ShareKeys : TxDBDelete(key)
    \/ TxDBCommit
    \/ TxDBRollback
    \/ DBClose
    \/ \E key \in ShareKeys, value \in ShareValues : DBSet(key, value)

\* the map calls of one transaction, nobody else writing the key
NextShareMap ==
    \/ \E key \in ShareKeys, value \in ShareMaps : TxDBSetMap(key, value)
    \/ \E key \in ShareKeys : TxDBRangeMap(key)
    \/ \E key \in ShareKeys, fields \in ShareFieldSets : TxDBDeleteMapField(key, fields)
    \/ \E key \in ShareKeys : TxDBDelete(key)
    \/ TxDBCommit

-----------------------------------------------------------------------------
(* Specifications: one structure instance is worked on in a behaviour *)

KVUnused == kv = NilBytes /\ kvVer = 0 /\ kvWriter = 0 /\ kvTx = [t \in KVTxIds |-> KVTxNone]
HashUnused ==
    hash = EmptyMap /\ hashVer = 0 /\ hashWriter = 0 /\ hashTx = [t \in HashTxIds |-> HashTxNone]

ZSetUnused ==
    /\ zset = EmptyMap /\ zsetVer = 0 /\ zsetWriter = 0
    /\ zsetTx = [t \in ZSetTxIds |-> ZSetTxNone] /\ zsetTrim = ZSetTrimNone

MgrUnused ==
    /\ reg = [typ \in RegTypes |-> EmptyMap]
    /\ regCalls = [typ \in RegTypes |-> [name \in RegNames |-> 0]]
    /\ closeCalls = 0

ShareUnused ==
    /\ db = [closed |-> FALSE, data |-> [k \in ShareKeys |-> RNone], writes |-> 0]
    /\ txDB = TxDBNew

MemUnused ==
    /\ mem = EmptyMap /\ memVer = 0
    /\ memTx = << >>

LocksUnused ==
    /\ mu = << >>
    /\ thr = << >>

InitKV ==
    /\ impl \in {"eval", "watch"}
    /\ target = "kv"
    /\ kv \in {NilBytes} \cup {Some(p) : p \in KVPayloads}
    /\ kvVer = 0 /\ kvWriter = 0
    /\ kvTx = [t \in KVTxIds |-> KVTxNone]
    /\ HashUnused /\ ZSetUnused
    /\ ret = Ret(0, NoErr)
    /\ MgrUnused /\ ShareUnused /\ MemUnused /\ LocksUnused /\ out = NoOut
    /\ client = << >>

SpecKV == InitKV /\ [][NextKV]_vars

InitHash ==
    /\ impl \in {"eval", "watch"}
    /\ target = "hash"
    /\ hash \in HashMaps
    /\ hashVer = 0 /\ hashWriter = 0
    /\ hashTx = [t \in HashTxIds |-> HashTxNone]
    /\ KVUnused /\ ZSetUnused
    /\ ret = Ret(0, NoErr)
    /\ MgrUnused /\ ShareUnused /\ MemUnused /\ LocksUnused /\ out = NoOut
    /\ client = << >>

SpecHash == InitHash /\ [][NextHash]_vars

SpecHashPair == InitHash /\ [][NextHashPair]_vars

InitZSet ==
    /\ impl = "eval"
    /\ target = "zset"
    /\ zset \in ZSetMaps
    /\ zsetVer = 0 /\ zsetWriter = 0
    /\ zsetTx = [t \in ZSetTxIds |-> ZSetTxNone]
    /\ zsetTrim = ZSetTrimNone
    /\ KVUnused /\ HashUnused
    /\ ret = Ret(0, NoErr)
    /\ MgrUnused /\ ShareUnused /\ MemUnused /\ LocksUnused /\ out = NoOut
    /\ client = << >>

SpecZSet == InitZSet /\ [][NextZSet]_vars

SpecZRead == InitZSet /\ [][NextZRead]_vars

SpecZTrim == InitZSet /\ [][NextZTrim]_vars

SpecZAlias == InitZSet /\ [][NextZAlias]_vars

\* the three stores, each behaviour working on one of them
SpecStores == (InitKV \/ InitHash \/ InitZSet) /\ [][NextKV \/ NextHash \/ NextZSet]_vars

InitZPair ==
    /\ impl = "eval"
    /\ target = "zset"
    /\ zset \in {EmptyMap, MapSet(EmptyMap, "x", 1)}
    /\ zsetVer = 0 /\ zsetWriter = 0
    /\ zsetTx = [t \in ZPairIds |-> ZSetTxNone]
    /\ zsetTrim = ZSetTrimNone
    /\ KVUnused /\ HashUnused
    /\ ret = Ret(0, NoErr)
    /\ MgrUnused /\ ShareUnused /\ MemUnused /\ LocksUnused /\ out = NoOut
    /\ client = << >>

\* NewMemoryStore: no field
InitMem ==
    /\ impl = "eval"
    /\ target = "mem"
    /\ mem = EmptyMap /\ memVer = 0
    /\ memTx = [t \in MemTxIds |-> MemTxNone]
    /\ KVUnused /\ HashUnused /\ ZSetUnused
    /\ MgrUnused /\ ShareUnused /\ LocksUnused
    /\ ret = Ret(0, NoErr)
    /\ client = << >>
    /\ out = NoOut

SpecMem == InitMem /\ [][NextMem]_vars

\* two transactions on one structure, each behaviour working on one structure
SpecTxPair ==
    /\ InitKV \/ InitHash \/ InitZPair \/ InitMem
    /\ [][NextKV \/ NextHashPair \/ NextZPair \/ NextMem]_vars

\* a store with any fields, and a transaction begun on it that has buffered
\* writes; no call is running
InitMemSteps ==
    /\ impl = "eval"
    /\ target = "mem"
    /\ mem \in HashMaps /\ memVer = 0
    /\ \E w \in HashMaps \ {EmptyMap} :
         memTx = [t \in MemTxIds |->
                    IF t = 1 THEN [MemNewTx EXCEPT !.writes = w] ELSE MemTxNone]
    /\ mu = [writer |-> 0, readers |-> {}]
    /\ thr = [cpc |-> "idle", ctodo |-> {}, applied |-> {},
              bpc |-> "idle", btodo |-> {}, bsnap |-> EmptyMap]
    /\ KVUnused /\ HashUnused /\ ZSetUnused /\ MgrUnused /\ ShareUnused
    /\ ret = Ret(0, NoErr)
    /\ client = << >>
    /\ out = NoOut

SpecMemSteps == InitMemSteps /\ [][NextMemSteps]_vars

\* one transaction of one of the four kinds, its mutex free, shared by the
\* goroutines
InitLocks ==
    /\ target \in {"kv", "hash", "zset", "mem"}
    /\ impl \in (IF target \in {"kv", "hash"} THEN {"eval", "watch"} ELSE {"eval"})
    /\ mu = [writer |-> 0, readers |-> {}]
    /\ thr = [g \in Goroutines |-> ThrIdle]
    /\ KVUnused /\ HashUnused /\ ZSetUnused /\ MgrUnused /\ ShareUnused /\ MemUnused
    /\ ret = Ret(0, NoErr)
    /\ client = << >>
    /\ out = NoOut

SpecLocks == InitLocks /\ [][NextLocks]_vars

\* Commit of the three Redis transactions, the sorted set with NaN scores
SpecCommit ==
    /\ InitKV \/ InitHash \/ InitZSet
    /\ [][NextKV \/ NextHash \/ NextZNaN]_vars

\* NewManager: the four maps are empty
InitManager ==
    /\ impl = "eval"
    /\ target = "manager"
    /\ MgrUnused /\ ShareUnused /\ MemUnused /\ LocksUnused
    /\ KVUnused /\ HashUnused /\ ZSetUnused
    /\ ret = Ret(0, NoErr)
    /\ client = << >>
    /\ out = NoOut

SpecManager == InitManager /\ [][NextManager]_vars

\* a new manager, its lock free, no goroutine in a call
InitMgrSteps ==
    /\ impl = "eval"
    /\ target = "manager"
    /\ MgrUnused /\ ShareUnused /\ MemUnused
    /\ mu = [writer |-> 0, readers |-> {}]
    /\ thr = [g \in Goroutines |-> MgrIdle]
    /\ KVUnused /\ HashUnused /\ ZSetUnused
    /\ ret = Ret(0, NoErr)
    /\ client = << >>
    /\ out = NoOut

SpecMgrSteps == InitMgrSteps /\ [][NextMgrSteps]_vars

InitCounter ==
    /\ impl \in {"eval", "watch"}
    /\ target = "kv"
    /\ kvVer = 0 /\ kvWriter = 0
    /\ kvTx = [t \in KVTxIds |-> KVTxNone]
    /\ HashUnused /\ ZSetUnused
    /\ ret = Ret(0, NoErr)
    /\ MgrUnused /\ ShareUnused /\ MemUnused /\ LocksUnused /\ out = NoOut
    /\ \E n \in CounterStarts :
         /\ kv = Some(EncodeID(n))
         /\ client = [start |-> n,
                      run |-> [c \in KVTxIds |-> [pc |-> "begin", i |-> 0, cur |-> 0]]]

SpecCounter == InitCounter /\ [][NextCounter]_vars

\* a key that is absent or holds a hash, an open DB and a new transaction
ShareStoredMaps == {[k \in DOMAIN m |-> jsonMarshal(m[k]).val[1]] : m \in ShareMaps}

InitShare ==
    /\ impl = "eval"
    /\ target = "share"
    /\ \E d \in [ShareKeys -> {RNone} \cup {RHash(m) : m \in ShareStoredMaps}] :
         db = [closed |-> FALSE, data |-> d, writes |-> 0]
    /\ txDB = TxDBNew
    /\ KVUnused /\ HashUnused /\ ZSetUnused /\ MgrUnused /\ MemUnused /\ LocksUnused
    /\ ret = Ret(0, NoErr)
    /\ client = << >>
    /\ out = NoOut

SpecShare == InitShare /\ [][NextShare]_vars

SpecShareMap == InitShare /\ [][NextShareMap]_vars

-----------------------------------------------------------------------------
(* Properties of the scalar store *)

\* a step in which Commit of handle t returns
KVCommitReturns(t) ==
    /\ KVTxCommitEval(t) \/ KVTxCommitWatch(t) \/ KVTxCommitCheck(t) \/ KVTxCommitExec(t)
    /\ kvTx'[t].pc = "idle"

\* t1 and t2 were opened from the same backend state and the Commit of t1 is
\* the one write made to the key since
KVOnlyWriterSince(t1, t2) ==
    /\ t1 # t2
    /\ kvTx[t1].st = "open" /\ kvTx[t2].st = "open"
    /\ kvTx[t1].beginVer = kvTx[t2].beginVer
    /\ kvWriter = t1
    /\ kvVer = kvTx[t2].beginVer + 1

\* C1: T1 and T2 opened from the same state, T1's Set committed and changed the
\* stored value; then the Commit of T2's Set of a different payload returns
\* ErrTransactionConflict and the key keeps T1's payload.
C1_Original ==
    [][\A t1, t2 \in KVTxIds :
         ( /\ KVOnlyWriterSince(t1, t2)
           /\ kv # kvTx[t2].snapshot
           /\ kvTx[t2].written /\ ~kvTx[t2].done /\ kvTx[t2].write # kv
           /\ KVCommitReturns(t2) )
         => (ret'.err = ErrTransactionConflict /\ kv' = kv)]_vars

\* C2: a Commit with a buffered write succeeds, and stores the write,
\* exactly when the backend value equals the Snapshot (absent differing from
\* every payload); otherwise it returns Conflict and leaves the backend as it is.
C2_Original ==
    [][\A t \in KVTxIds :
         (kvTx[t].st = "open" /\ kvTx[t].written /\ ~kvTx[t].done /\ KVCommitReturns(t))
         => /\ (ret'.err = NoErr) <=> (kv = kvTx[t].snapshot)
            /\ ret'.err = NoErr => kv' = kvTx[t].write
            /\ ret'.err # NoErr => (ret'.err = ErrTransactionConflict /\ kv' = kv)]_vars

\* C3: when every client of the counter loop has finished, the stored counter is
\* the initial one plus the number of Commits that returned success.
CounterFinished == \A c \in KVTxIds : client.run[c].pc \in {"ok", "giveup"}
CounterSuccesses == Cardinality({c \in KVTxIds : client.run[c].pc = "ok"})

C3_NoLostUpdate ==
    CounterFinished => (~IsNil(kv) /\ DecodeID(kv[1]) = client.start + CounterSuccesses)

C3_Witness ==
    /\ CounterFinished
    /\ CounterSuccesses = Cardinality(KVTxIds)
    /\ \E c \in KVTxIds : client.run[c].i > 0

-----------------------------------------------------------------------------
(* Properties of the field-map store *)

\* a step in which Commit of handle t returns
HashCommitReturns(t) ==
    /\ \/ HashTxCommitEval(t) \/ HashTxCommitWatch(t)
       \/ HashTxCommitCheck(t) \/ HashTxCommitExec(t)
    /\ hashTx'[t].pc = "idle"

\* t1 and t2 were opened from the same backend state and the Commit of t1 is
\* the one write made to the key since
HashOnlyWriterSince(t1, t2) ==
    /\ t1 # t2
    /\ hashTx[t1].st = "open" /\ hashTx[t2].st = "open"
    /\ hashTx[t1].beginVer = hashTx[t2].beginVer
    /\ hashWriter = t1
    /\ hashVer = hashTx[t2].beginVer + 1

\* C4: T1 and T2 opened from the same state, T1's HSet(f, v1) committed; then the
\* Commit of T2's HSet(f, v2) returns ErrTransactionConflict and HGet(f) gives v1.
C4_Original ==
    [][\A t1, t2 \in HashTxIds, f \in HFields, v1, v2 \in HPayloads :
         ( /\ HashOnlyWriterSince(t1, t2)
           /\ hashTx[t1].opQueue = <<SetOp(f, v1)>>
           /\ hashTx[t2].opQueue = <<SetOp(f, v2)>>
           /\ ~hashTx[t2].done
           /\ HashCommitReturns(t2) )
         => /\ ret'.err = ErrTransactionConflict
            /\ f \in DOMAIN hash' /\ hash'[f] = v1]_vars

\* the result the Operation Log and the Snapshot determine for a field: the last
\* queued operation on it, else the Snapshot entry
HGetExpected(tx, f) ==
    LET q == tx.opQueue
        on == {i \in 1..Len(q) : q[i].field = f}
    IN  IF on # {}
        THEN LET last == CHOOSE i \in on : \A j \in on : j <= i
             IN  IF q[last].isSet THEN [err |-> NoErr, val |-> q[last].value]
                                  ELSE [err |-> ErrFieldNotFound, val |-> NilBytes]
        ELSE IF f \in DOMAIN tx.snapshot
             THEN [err |-> NoErr, val |-> Some(tx.snapshot[f])]
             ELSE [err |-> ErrFieldNotFound, val |-> NilBytes]

\* C8: tx.HGet(f) gives the value of the last buffered HSet on f, ErrFieldNotFound
\* when the last buffered operation on f is a delete, else the Snapshot value of f
\* or ErrFieldNotFound; the backend, which direct callers change, plays no part.
C8_Original ==
    \A t \in HashSoloIds : hashTx[t].st = "open" =>
        \A f \in HFields : HashTxHGetResult(hashTx[t], f) = HGetExpected(hashTx[t], f)

\* the Snapshot overlaid with the Operation Log
HashOverlay(tx) ==
    [f \in {x \in HFields : HGetExpected(tx, x).err = NoErr} |-> HGetExpected(tx, f).val[1]]

\* C9: tx.HGetAll is the Snapshot overlaid with the Operation Log in log order and
\* agrees with tx.HGet: f maps to v in it iff tx.HGet(f) succeeds with v.
C9_HGetAllAgrees ==
    \A t \in HashSoloIds : hashTx[t].st = "open" =>
        LET all == HashTxHGetAllResult(hashTx[t])
        IN  /\ all = HashOverlay(hashTx[t])
            /\ \A f \in HFields :
                 LET g == HashTxHGetResult(hashTx[t], f)
                 IN  /\ (f \in DOMAIN all) <=> (g.err = NoErr)
                     /\ (f \in DOMAIN all) => g.val = Some(all[f])

C9_Witness ==
    \E t \in HashSoloIds, f \in HFields :
        /\ hashTx[t].st = "open"
        /\ Len(hashTx[t].opQueue) = 2
        /\ hashTx[t].opQueue[1].field = f /\ hashTx[t].opQueue[1].isSet
        /\ hashTx[t].opQueue[2].field = f /\ ~hashTx[t].opQueue[2].isSet
        /\ f \in DOMAIN hashTx[t].snapshot
        /\ f \notin DOMAIN HashTxHGetAllResult(hashTx[t])
        /\ hash # hashTx[t].snapshot

\* C10: Commit applies the queue in the order it was buffered: after a successful
\* Commit with no other writer since BeginTx the key holds what tx.HGetAll gave
\* just before the Commit.
C10_CommitInOrder ==
    [][\A t \in HashSoloIds :
         ( /\ hashTx[t].st = "open" /\ ~hashTx[t].done
           /\ hashVer = hashTx[t].beginVer
           /\ HashCommitReturns(t)
           /\ ret'.err = NoErr )
         => hash' = HashTxHGetAllResult(hashTx[t])]_vars

C10_Witness ==
    \E t \in HashSoloIds, f \in HFields :
        /\ hashTx[t].done /\ ret = Ret(t, NoErr) /\ hashWriter = t
        /\ hashVer = hashTx[t].beginVer + 1
        /\ Len(hashTx[t].opQueue) = 2
        /\ hashTx[t].opQueue[1] = DelOp(f)
        /\ hashTx[t].opQueue[2].isSet /\ hashTx[t].opQueue[2].field = f
        /\ f \in DOMAIN hash /\ hash[f] = hashTx[t].opQueue[2].value[1]
        /\ f \notin DOMAIN hashTx[t].snapshot

-----------------------------------------------------------------------------
(* Properties of the sorted-set store and of the three stores together *)

\* C5: when the sorted-set key was changed by another client between BeginTx and
\* Commit, the Commit of a transaction with buffered operations returns
\* ErrTransactionConflict and applies none of them.
C5_Original ==
    [][\A t \in ZSetTxIds :
         ( /\ zsetTx[t].st = "open" /\ ~zsetTx[t].done
           /\ Len(zsetTx[t].ops) > 0
           /\ zsetVer > zsetTx[t].beginVer
           /\ zset # ZSnapMap(zsetTx[t].snapshot)
           /\ ZSetTxCommit(t) )
         => (ret'.err = ErrTransactionConflict /\ zset' = zset)]_vars

\* the elements of a list, and of a stored sorted set
ZElemSet(list) == {list[i] : i \in DOMAIN list}
ZStored(z) == {Elem(m, z[m]) : m \in DOMAIN z}

\* what the buffered calls of a transaction amount to: a member is there with
\* the score of the last call on it when that call is an add, and with its
\* snapshot score when no call was made on it
ZLastOp(ops, m) ==
    LET I == {i \in DOMAIN ops : ops[i].m = m}
    IN  IF I = {} THEN 0 ELSE CHOOSE i \in I : \A j \in I : j <= i
ZExpected(tx) ==
    {e \in [m : ZMembers, s : ZScores] :
        LET k == ZLastOp(tx.ops, e.m)
        IN  IF k = 0 THEN e \in ZElemSet(tx.snapshot)
            ELSE tx.ops[k].isAdd /\ tx.ops[k].s = e.s}

\* C11: tx.ZRange(0, -1) lists what the snapshot and all buffered ZAdd, ZRem and
\* trim calls amount to, and when Commit succeeds with no write by anyone else
\* since BeginTx, the store holds the same members with the same scores.
C11_ViewIsCommitted ==
    [][\A t \in ZSetTxIds :
         ( /\ zsetTx[t].st = "open" /\ ~zsetTx[t].done
           /\ zsetVer = zsetTx[t].beginVer
           /\ ZSetTxCommit(t)
           /\ ret'.err = NoErr )
         => /\ \A r \in ZSetTxZRangeResults(zsetTx[t], 0, -1) :
                 /\ r.err = NoErr
                 /\ Len(r.val) = Cardinality(ZElemSet(r.val))
                 /\ ZElemSet(r.val) = ZExpected(zsetTx[t])
            /\ ZStored(zset') = ZExpected(zsetTx[t])]_vars

C11_Witness ==
    \E t \in ZSetTxIds :
        /\ zsetTx[t].done /\ ~zsetTx[t].rolled
        /\ ret = Ret(t, NoErr)
        /\ zsetWriter = t /\ zsetVer = zsetTx[t].beginVer + 1
        /\ \E i, j \in DOMAIN zsetTx[t].ops :
             zsetTx[t].ops[i].isAdd /\ ~zsetTx[t].ops[j].isAdd
        /\ zsetTx[t].snapshot # << >>
        /\ ZStored(zset) = ZExpected(zsetTx[t])
        /\ zset # ZSnapMap(zsetTx[t].snapshot)

\* the entries a list has for a payload, and the entries it has for the others
ZEntries(list, m) == {i \in DOMAIN list : list[i].m = m}
ZOthers(list, m) == {e \in ZElemSet(list) : e.m # m}

\* C12: a member is its encoded payload. The stored set and the view of a
\* transaction hold at most one entry for a payload; after ZAdd of a payload the
\* one entry for it has the score of that call, also when the payload was there
\* with another score; after ZRem the payload is absent; the entries of the other
\* payloads stay, so that ZRem of an absent payload changes nothing.
C12_PayloadIdentity ==
    [][/\ \A t \in ZSetTxIds, m \in ZMembers :
            zsetTx'[t] # zsetTx[t] =>
            \A old \in ZSetTxZRangeResults(zsetTx[t], 0, -1) :
            \A new \in ZSetTxZRangeResults(zsetTx'[t], 0, -1) :
               /\ \A sc \in ZScores :
                    ZSetTxZAdd(t, m, sc) =>
                       /\ Cardinality(ZEntries(new.val, m)) = 1
                       /\ Elem(m, sc) \in ZElemSet(new.val)
                       /\ ZOthers(new.val, m) = ZOthers(old.val, m)
               /\ ZSetTxZRem(t, m) =>
                       /\ ZEntries(new.val, m) = {}
                       /\ ZOthers(new.val, m) = ZOthers(old.val, m)
                       /\ ZEntries(old.val, m) = {} => ZElemSet(new.val) = ZElemSet(old.val)
               /\ Cardinality(ZEntries(new.val, m)) <= 1
       /\ \A m \in ZMembers :
            zsetVer' # zsetVer =>
            LET old == ZSetZRangeResult(0, -1)
                new == ZRangeAll(zset')
            IN  /\ \A sc \in ZScores :
                     ZSetZAdd(m, sc) =>
                        /\ Cardinality(ZEntries(new, m)) = 1
                        /\ Elem(m, sc) \in ZElemSet(new)
                        /\ ZOthers(new, m) = ZOthers(old, m)
                /\ ZSetZRem(m) =>
                        /\ ZEntries(new, m) = {}
                        /\ ZOthers(new, m) = ZOthers(old, m)
                /\ Cardinality(ZEntries(new, m)) <= 1]_vars

C12_Witness ==
    \E t \in ZSetTxIds, m \in ZMembers :
        /\ zsetTx[t].st = "open"
        /\ Len(zsetTx[t].ops) = 2
        /\ zsetTx[t].ops[1].isAdd /\ zsetTx[t].ops[2].isAdd
        /\ zsetTx[t].ops[1].m = m /\ zsetTx[t].ops[2].m = m
        /\ zsetTx[t].ops[1].s # zsetTx[t].ops[2].s
        /\ \E e \in ZElemSet(zsetTx[t].snapshot) : e.m = m /\ e.s = zsetTx[t].ops[2].s
        /\ \A r \in ZSetTxZRangeResults(zsetTx[t], 0, -1) :
             /\ Cardinality(ZEntries(r.val, m)) = 1
             /\ Elem(m, zsetTx[t].ops[2].s) \in ZElemSet(r.val)

\* a rank argument counted from the end when negative, then brought into
\* 0 .. count-1 from below (a start) or from above (a stop)
ZRankFrom(count, start) ==
    LET r == IF start < 0 THEN start + count ELSE start IN IF r < 0 THEN 0 ELSE r
ZRankTo(count, stop) ==
    LET r == IF stop < 0 THEN stop + count ELSE stop IN IF r >= count THEN count - 1 ELSE r

\* C13: tx.ZRange(start, stop) ends without a panic for every member count, 0
\* included, and every pair of ranks; it returns the empty list when the
\* normalized start is past the normalized stop and otherwise as many elements
\* as the clamped interval has ranks.
C13_RangeInBounds ==
    [][\A t \in ZSetTxIds :
         (out'.op = "ZRange" /\ ZSetTxZRangeCall(t, out'.args[1], out'.args[2])) =>
            LET count == Cardinality(DOMAIN applyOps(zsetTx[t]))
                from == ZRankFrom(count, out'.args[1])
                to == ZRankTo(count, out'.args[2])
            IN  /\ out'.res.err = NoErr
                /\ Len(out'.res.val) = IF from > to THEN 0 ELSE to - from + 1
                /\ Len(out'.res.val) <= count]_vars

C13_Witness ==
    /\ out.op = "ZRange"
    /\ out.args[1] = MinInt /\ out.args[2] = MaxInt
    /\ out.res.err = NoErr
    /\ Len(out.res.val) = 2

\* the listings of a set of elements by score, ascending or descending
ZListings(S, desc) ==
    {L \in [1..Cardinality(S) -> S] :
        /\ \A i, j \in DOMAIN L : i # j => L[i] # L[j]
        /\ \A i, j \in DOMAIN L :
             i < j => IF desc THEN L[i].s >= L[j].s ELSE L[i].s <= L[j].s}

\* C14: tx.ZRange(start, stop) returns the members of the view in ascending
\* order of score, cut to the ranks start .. stop, both included, where a
\* negative rank r stands for count + r.
C14_RangeAscending ==
    [][\A t \in ZSetTxIds :
         (out'.op = "ZRange" /\ ZSetTxZRangeCall(t, out'.args[1], out'.args[2])) =>
            LET view == ZExpected(zsetTx[t])
                from == ZRankFrom(Cardinality(view), out'.args[1])
                to == ZRankTo(Cardinality(view), out'.args[2])
            IN  \E L \in ZListings(view, FALSE) :
                   out'.res = Res(NoErr, IF from > to THEN << >>
                                         ELSE [i \in 1..(to - from + 1) |-> L[from + i]])]_vars

C14_Witness ==
    /\ out.op = "ZRange"
    /\ out.args[1] = -1 /\ out.args[2] = -1
    /\ out.res.err = NoErr
    /\ Len(out.res.val) = 1
    /\ \E t \in ZSetTxIds :
         /\ Cardinality(ZExpected(zsetTx[t])) = 2
         /\ \A e \in ZExpected(zsetTx[t]) : e = out.res.val[1] \/ e.s < out.res.val[1].s

\* the elements of a stored set that fewer than n others come before, by
\* ascending or by descending score
ZLowest(z, n) == {e \in ZStored(z) : Cardinality({u \in ZStored(z) : u.s < e.s}) < n}
ZHighest(z, n) == {e \in ZStored(z) : Cardinality({u \in ZStored(z) : u.s > e.s}) < n}
ZDistinctScores(z) == \A a, b \in DOMAIN z : a # b => z[a] # z[b]

\* C15: on a stored set whose scores are distinct and that nobody else writes
\* during the call (it has the size ZCARD gave when the removal runs),
\* ZTrimByTopN(n) with n >= 0 leaves the min(n, count) members of lowest score
\* and ZRevTrimByTopN(n) the min(n, count) of highest score; a call with
\* count <= n returns after ZCARD and leaves the set as it is.
C15_DirectTrim ==
    [][/\ ( /\ ZSetZTrimByTopNRem
            /\ zsetTrim.n >= 0 /\ ZDistinctScores(zset)
            /\ Cardinality(DOMAIN zset) = zsetTrim.total )
          => /\ ZStored(zset') = ZLowest(zset, zsetTrim.n)
             /\ Cardinality(DOMAIN zset') = zsetTrim.n
       /\ ( /\ ZSetZRevTrimByTopNRem
            /\ zsetTrim.n >= 0 /\ ZDistinctScores(zset)
            /\ Cardinality(DOMAIN zset) = zsetTrim.total )
          => /\ ZStored(zset') = ZHighest(zset, zsetTrim.n)
             /\ Cardinality(DOMAIN zset') = zsetTrim.n
       /\ \A n \in ZAnyTrimNs :
            ( /\ ZSetZTrimByTopNCard(n) \/ ZSetZRevTrimByTopNCard(n)
              /\ Cardinality(DOMAIN zset) <= n )
            => /\ zset' = zset
               /\ zsetTrim'.pc \notin {"trim", "revtrim"}]_vars

C15_Witness ==
    /\ zsetTrim.pc = "revtrimmed"
    /\ zsetTrim.n = 1 /\ zsetTrim.total = 2
    /\ zsetVer = 1
    /\ \E m \in ZMembers : ZStored(zset) = {Elem(m, 2)}

\* min(max(n, 0), count)
ZKept(n, count) == IF n <= 0 THEN 0 ELSE IF n < count THEN n ELSE count

\* C16: tx.ZTrimByTopN(n) and tx.ZRevTrimByTopN(n) end without a panic for every
\* n, n <= 0 included, and a ZRange(0, -1) that follows in the transaction
\* returns min(max(n, 0), count) members.
C16_Original ==
    [][\A t \in ZSetTxIds, n \in ZAnyTrimNs :
         (ZSetTxZTrimByTopN(t, n) \/ ZSetTxZRevTrimByTopN(t, n)) =>
            /\ ~(ret' # ret /\ ret'.err = Panic)
            /\ \A r \in ZSetTxZRangeResults(zsetTx'[t], 0, -1) :
                 Len(r.val) = ZKept(n, Cardinality(ZExpected(zsetTx[t])))]_vars

\* C17: on one state of a transaction (one snapshot, one queue) a read returns
\* one sequence and a trim retains one set of members, also when effective
\* members have equal scores: each of ZRange, ZRevRangeByScore, ZTrimByTopN and
\* ZRevTrimByTopN has a single outcome for given arguments.
C17_Original ==
    \A t \in ZSetTxIds :
        zsetTx[t].st = "open" =>
           /\ Cardinality(ZSetTxZRangeResults(zsetTx[t], 0, -1)) = 1
           /\ \A max \in ZBounds, min \in ZBounds :
                Cardinality(ZSetTxZRevRangeByScoreResults(zsetTx[t], max, min, 0, -1)) = 1
           /\ \A n \in ZTrimNs, desc \in BOOLEAN :
                Cardinality({ZTrimRems(q, n) : q \in ZSorted(applyOps(zsetTx[t]), desc)}) = 1

\* the page of a list: without its first offset elements, and with at most
\* count of the rest when count >= 0
ZPage(L, offset, count) ==
    LET off == IF offset < 0 THEN 0 ELSE offset
        last == IF count < 0 \/ off + count > Len(L) THEN Len(L) ELSE off + count
    IN  IF off >= Len(L) THEN << >> ELSE [i \in 1..(last - off) |-> L[off + i]]

\* C18: tx.ZRevRangeByScore(max, min, offset, count) returns the members of the
\* view with min <= score <= max in descending order of score, without the
\* first offset of them and at most count of the rest (all of the rest when
\* count < 0), nothing when offset is at or past their number, and ends without
\* a panic for every offset and count.
C18_Original ==
    [][\A t \in ZSetTxIds :
         ( /\ out'.op = "ZRevRangeByScore"
           /\ ZSetTxZRevRangeByScoreCall(t, out'.args[1], out'.args[2],
                                          out'.args[3], out'.args[4]) ) =>
            LET in == {e \in ZExpected(zsetTx[t]) :
                         out'.args[2] <= e.s /\ e.s <= out'.args[1]}
            IN  \E L \in ZListings(in, TRUE) :
                   out'.res = Res(NoErr, ZPage(L, out'.args[3], out'.args[4]))]_vars

-----------------------------------------------------------------------------
(* Properties of the StorageManager *)

\* C19: for each of the four structure types, a Register call with a name that
\* is registered for that type returns an error and leaves the registry as it
\* is, and Get for that name returns the instance the first Register call made.
C19_DuplicateRejected ==
    [][\A typ \in RegTypes, name \in RegNames :
         (name \in DOMAIN reg[typ] /\ Register(typ, name)) =>
            /\ out'.res.err # NoErr
            /\ reg' = reg
            /\ GetResult(reg', typ, name) = Res(NoErr, <<NewInstance(typ, name, 1)>>)]_vars

C19_Witness ==
    \E typ \in RegTypes, name \in RegNames :
        /\ regCalls[typ][name] >= 2
        /\ out.op = "Get"
        /\ out.args = <<typ, name>>
        /\ out.res = Res(NoErr, <<NewInstance(typ, name, 1)>>)

\* C20: Get<Type>(name) fails, with the not-found error, exactly when no
\* Register<Type>(name) call was made before it (the first such call succeeds);
\* a Register call changes nothing for another type or another name; a
\* registered name stays registered, with the same instance.
C20_Lookup ==
    [][/\ \A typ \in RegTypes, name \in RegNames :
            Get(typ, name) =>
               /\ out'.res.err \in {NoErr, ErrNotRegistered}
               /\ (out'.res.err = ErrNotRegistered) <=> (regCalls[typ][name] = 0)
       /\ \A typ \in RegTypes, name \in RegNames :
            /\ (regCalls[typ][name] = 0 /\ Register(typ, name)) => out'.res.err = NoErr
            /\ Register(typ, name) =>
                  \A typ2 \in RegTypes, name2 \in RegNames :
                     <<typ2, name2>> # <<typ, name>> =>
                        (name2 \in DOMAIN reg'[typ2]) <=> (name2 \in DOMAIN reg[typ2])
            /\ name \in DOMAIN reg[typ] =>
                  (name \in DOMAIN reg'[typ] /\ reg'[typ][name] = reg[typ][name])]_vars

\* C21: whatever the number of Close calls on the manager, Close of the client
\* is called once, and no Close call on the manager returns an error.
C21_Original ==
    /\ closeCalls <= 1
    /\ out.op = "Close" => out.res.err = NoErr

\* C22: no two stores registered on a manager, of one structure type or of
\* two, are bound to the same backend key.
C22_Original ==
    \A typ1 \in BackendTypes, typ2 \in BackendTypes :
       \A name1 \in DOMAIN reg[typ1], name2 \in DOMAIN reg[typ2] :
          <<typ1, name1>> # <<typ2, name2>> =>
             InstanceKey(reg[typ1][name1]) # InstanceKey(reg[typ2][name2])

C20_Witness ==
    /\ out.op = "Get"
    /\ out.args = <<"Hash", "a">>
    /\ out.res.err = ErrNotRegistered
    /\ "a" \in DOMAIN reg["KV"] /\ "b" \in DOMAIN reg["Hash"]
    /\ "a" \notin DOMAIN reg["Hash"]

-----------------------------------------------------------------------------
-----------------------------------------------------------------------------
(* In-memory store properties *)

\* the values of the calls HSet(f, v) in a log that no later HSet(f, _) follows
MemLastWritten(log, f) ==
    {log[i][2] : i \in {j \in DOMAIN log :
                          /\ log[j][1] = f
                          /\ \A k \in DOMAIN log : k > j => log[k][1] # f}}

\* C23: a Commit of an in-memory transaction that is not done takes effect
\* whatever happened to the store since BeginTx; after it every field the
\* transaction wrote holds the value of its last HSet, and every other field is
\* as it was in the store just before the Commit.
C23_CommitOwnWrites ==
    [][\A t \in MemTxIds :
          (memTx[t].st = "open" /\ ~memTx[t].done /\ memTx'[t].commitVer # memTx[t].commitVer) =>
             /\ memTx'[t].done
             /\ ret' = Ret(t, NoErr)
             /\ \A f \in HFields :
                  IF MemLastWritten(memTx[t].log, f) # {}
                  THEN f \in DOMAIN mem' /\ MemLastWritten(memTx[t].log, f) = {mem'[f]}
                  ELSE /\ f \in DOMAIN mem' <=> f \in DOMAIN mem
                       /\ f \in DOMAIN mem => mem'[f] = mem[f]]_vars

\* a transaction committed a field it wrote twice, after the store got another
\* field that its snapshot does not have; that field is still there
C23_Witness ==
    \E t \in MemTxIds, f \in HFields, g \in HFields :
       /\ memTx[t].done /\ memTx[t].commitVer > memTx[t].beginVer
       /\ Len(memTx[t].log) = 2
       /\ memTx[t].log[1][1] = g /\ memTx[t].log[2][1] = g
       /\ memTx[t].log[1][2] # memTx[t].log[2][2]
       /\ f # g /\ f \notin DOMAIN memTx[t].snapshot /\ f \in DOMAIN mem
       /\ g \in DOMAIN mem /\ mem[g] = memTx[t].log[2][2]

-----------------------------------------------------------------------------
(* Two transactions on one structure *)

\* C24: what the reads of an open transaction return is changed neither by a
\* step of another transaction on the structure (a buffered call, a Commit, a
\* Rollback) nor by a write to the backend made after its BeginTx; scalar,
\* field map, sorted set and in-memory map. ZRange and ZRevRangeByScore are
\* computed from their arguments and the list applyOps gives, which stands
\* for them here.
C24_ReadsIsolated ==
    [][/\ \A t \in KVTxIds :
            (target = "kv" /\ kvTx[t].st = "open"
               /\ (kvVer' # kvVer \/ \E u \in KVTxIds \ {t} : kvTx'[u] # kvTx[u])) =>
                  KVTxGetResult(kvTx[t])' = KVTxGetResult(kvTx[t])
       /\ \A t \in HashTxIds :
            (target = "hash" /\ hashTx[t].st = "open"
               /\ (hashVer' # hashVer \/ \E u \in HashTxIds \ {t} : hashTx'[u] # hashTx[u])) =>
                  /\ HashTxHGetAllResult(hashTx[t])' = HashTxHGetAllResult(hashTx[t])
                  /\ \A f \in HFields :
                       HashTxHGetResult(hashTx[t], f)' = HashTxHGetResult(hashTx[t], f)
       /\ \A t \in ZPairIds :
            (target = "zset" /\ zsetTx[t].st = "open"
               /\ (zsetVer' # zsetVer \/ \E u \in ZPairIds \ {t} : zsetTx'[u] # zsetTx[u])) =>
                  applyOps(zsetTx[t])' = applyOps(zsetTx[t])
       /\ \A t \in MemTxIds :
            (target = "mem" /\ memTx[t].st = "open"
               /\ (mem' # mem \/ \E u \in MemTxIds \ {t} : memTx'[u] # memTx[u])) =>
                  \A f \in HFields :
                     MemTxHGetResult(memTx[t], f)' = MemTxHGetResult(memTx[t], f)]_vars

\* the first scalar transaction committed its write, a direct Set followed, and
\* the second transaction, begun before both, still reads its snapshot, which
\* is not what the key holds
C24_Witness ==
    /\ target = "kv"
    /\ kvTx[1].done /\ kvTx[1].written /\ ret = Ret(1, NoErr)
    /\ kvVer = 2 /\ kvWriter = 0
    /\ kvTx[2].st = "open" /\ ~kvTx[2].done /\ ~kvTx[2].written /\ kvTx[2].beginVer = 0
    /\ kv # kvTx[2].snapshot /\ kv # kvTx[1].write
    /\ KVTxGetResult(kvTx[2]).val = kvTx[2].snapshot

-----------------------------------------------------------------------------
(* Lock discipline *)

\* goroutine g holds the mutex as the step it is about to take needs it
HoldsFor(g) ==
    CASE AtStep(g).op = "write" -> mu.writer = g
      [] AtStep(g).op = "read" -> mu.writer = g \/ g \in mu.readers
      [] OTHER -> TRUE

\* two goroutines are about to access the same field, one of them to write it
Races(g, h) ==
    /\ g # h
    /\ AtStep(g).op = "write" /\ AtStep(h).op \in {"read", "write"}
    /\ AtStep(g).field = AtStep(h).field

\* C25: in every transaction type a goroutine about to read or write a field of
\* the transaction holds the transaction's mutex, and no goroutine is about to
\* read a field that another is about to write.
C25_Original ==
    /\ \A g \in Goroutines : HoldsFor(g)
    /\ \A g \in Goroutines, h \in Goroutines : ~Races(g, h)

-----------------------------------------------------------------------------
(* Scalar store: buffer of a transaction, direct access *)

\* the errors that say the key, field or member does not exist
NotFound == {ErrFieldNotFound, ErrAnonFieldNotFound, ErrAnonKeyNotFound, ErrAnonHashFieldNotFound}

C27_EmptyCommit ==
    [][/\ \A t \in KVTxIds :
            (/\ target = "kv" /\ kvTx[t].st = "open" /\ kvTx[t].pc = "idle"
             /\ ~kvTx[t].done /\ ~kvTx[t].written
             /\ KVTxCommitEval(t) \/ KVTxCommitWatch(t)) =>
                /\ ret' = Ret(t, NoErr)
                /\ kvTx'[t].pc = "idle"
                /\ UNCHANGED <<kv, kvVer, kvWriter>>
       /\ \A t \in HashSoloIds :
            (/\ target = "hash" /\ hashTx[t].st = "open" /\ hashTx[t].pc = "idle"
             /\ ~hashTx[t].done /\ Len(hashTx[t].opQueue) = 0
             /\ HashTxCommitEval(t) \/ HashTxCommitWatch(t)) =>
                /\ ret' = Ret(t, NoErr)
                /\ hashTx'[t].pc = "idle"
                /\ UNCHANGED <<hash, hashVer, hashWriter>>
       /\ \A t \in ZSetTxIds :
            (/\ target = "zset" /\ zsetTx[t].st = "open"
             /\ ~zsetTx[t].done /\ Len(zsetTx[t].ops) = 0
             /\ ZSetTxCommit(t)) =>
                /\ ret' = Ret(t, NoErr)
                /\ UNCHANGED <<zset, zsetVer, zsetWriter>>]_vars

\* the second scalar transaction committed a write after the first one began,
\* the key no longer holds the first one's snapshot, and the first one, with
\* nothing buffered, was the last to have its Commit return, with nil
C27_Witness ==
    /\ target = "kv"
    /\ kvTx[1].done /\ ~kvTx[1].rolled /\ ~kvTx[1].written
    /\ ret = Ret(1, NoErr)
    /\ kvWriter = 2 /\ kvVer = kvTx[1].beginVer + 1
    /\ kv # kvTx[1].snapshot

\* C28: right after a direct Set(v), Get returns v; Get returns the same until
\* the key is written again; on an absent key Get fails with ErrFieldNotFound
\* and hands no payload to dest.
C28_DirectAccess ==
    [][/\ \A v \in KVPayloads :
            KVSet(v) => KVGetResult' = [err |-> NoErr, val |-> Some(v)]
       /\ (target = "kv" /\ kvVer' = kvVer) => KVGetResult' = KVGetResult
       /\ (target = "kv" /\ IsNil(kv)) =>
             KVGetResult = [err |-> ErrFieldNotFound, val |-> NilBytes]]_vars

\* two direct Sets and no transaction: Get returns the payload of the last one
C28_Witness ==
    /\ target = "kv"
    /\ \A t \in KVTxIds : kvTx[t].st = "none"
    /\ kvVer = 2 /\ kvWriter = 0
    /\ KVGetResult = [err |-> NoErr, val |-> Some("")]

-----------------------------------------------------------------------------
(* Field map: direct access *)

\* C29: HGetAll after a direct HSet(f, v) is HGetAll before it with f at v;
\* after a direct HDel it is HGetAll before it without the deleted fields; it
\* is unchanged while the key is not written, and empty on an empty key. HGet(f)
\* returns the payload HGetAll has at f, and fails with ErrFieldNotFound exactly
\* when HGetAll has no f.
C29_DirectFieldMap ==
    [][/\ \A f \in HFields, v \in HPayloads :
            HashHSet(f, v) =>
               /\ f \in DOMAIN HashHGetAllResult' /\ HashHGetAllResult'[f] = v
               /\ \A g \in HFields \ {f} :
                    /\ g \in DOMAIN HashHGetAllResult' <=> g \in DOMAIN HashHGetAllResult
                    /\ g \in DOMAIN HashHGetAllResult => HashHGetAllResult'[g] = HashHGetAllResult[g]
       /\ \A fs \in (SUBSET HFields) \ {{}} :
            HashHDel(fs) =>
               /\ DOMAIN HashHGetAllResult' = (DOMAIN HashHGetAllResult) \ fs
               /\ \A g \in DOMAIN HashHGetAllResult' : HashHGetAllResult'[g] = HashHGetAllResult[g]
       /\ (target = "hash" /\ hashVer' = hashVer) => HashHGetAllResult' = HashHGetAllResult
       /\ target = "hash" =>
            \A f \in HFields :
               /\ HashHGetResult(f).err = ErrFieldNotFound <=> f \notin DOMAIN HashHGetAllResult
               /\ f \in DOMAIN HashHGetAllResult =>
                    HashHGetResult(f) = [err |-> NoErr, val |-> Some(HashHGetAllResult[f])]]_vars

\* two direct writes and no transaction: HGetAll has g and not f, HGet(g)
\* succeeds and HGet(f) fails with ErrFieldNotFound
C29_Witness ==
    /\ target = "hash"
    /\ \A t \in HashTxIds : hashTx[t].st = "none"
    /\ hashVer = 2 /\ hashWriter = 0
    /\ DOMAIN HashHGetAllResult = {"g"}
    /\ HashHGetResult("g") = [err |-> NoErr, val |-> Some(hash["g"])]
    /\ HashHGetResult("f").err = ErrFieldNotFound

-----------------------------------------------------------------------------
(* Commit: all or nothing *)

\* C30: a Commit that returns an error leaves the backend without any of the
\* buffered operations, as it was; a Commit of buffered operations that returns
\* nil leaves it with all of them applied; scalar, field map, sorted set.
C30_Original ==
    [][/\ \A t \in KVTxIds :
            (target = "kv" /\ KVCommitReturns(t) /\ kvTx[t].written) =>
               IF ret'.err = NoErr THEN kv' = kvTx[t].write ELSE kv' = kv
       /\ \A t \in HashSoloIds :
            (target = "hash" /\ HashCommitReturns(t)) =>
               IF ret'.err = NoErr
               THEN hash' = ApplyHashOps(hash, hashTx[t].opQueue)
               ELSE hash' = hash
       /\ \A t \in ZSetTxIds :
            (target = "zset" /\ ZSetTxCommit(t)) =>
               IF ret'.err = NoErr
               THEN zset' = ZApplyOps(zset, zsetTx[t].ops)
               ELSE zset' = zset]_vars

-----------------------------------------------------------------------------
(* Terminal calls *)

\* C31: a Commit on a transaction on which Rollback was called returns the
\* already-finished error, sends no command (the WATCH builds stay out of
\* their WATCH block) and leaves the backend as it is, whatever is buffered;
\* scalar, field map, sorted set.
C31_RolledBackNeverCommits ==
    [][/\ \A t \in KVTxIds :
            /\ kvTx'[t].rolled => kvTx'[t].pc = "idle"
            /\ (kvTx[t].rolled /\ (KVTxCommitEval(t) \/ KVTxCommitWatch(t))) =>
                  /\ ret' = Ret(t, ErrFinished)
                  /\ UNCHANGED <<kv, kvVer, kvWriter>>
       /\ \A t \in HashSoloIds :
            /\ hashTx'[t].rolled => hashTx'[t].pc = "idle"
            /\ (hashTx[t].rolled /\ (HashTxCommitEval(t) \/ HashTxCommitWatch(t))) =>
                  /\ ret' = Ret(t, ErrFinished)
                  /\ UNCHANGED <<hash, hashVer, hashWriter>>
       /\ \A t \in ZSetTxIds :
            (zsetTx[t].rolled /\ ZSetTxCommit(t)) =>
               /\ ret' = Ret(t, ErrFinished)
               /\ UNCHANGED <<zset, zsetVer, zsetWriter>>]_vars

\* a rolled-back scalar transaction holds a buffered write, its Commit returned
\* the already-finished error, and the key was never written
C31_Witness ==
    \E t \in KVTxIds :
       /\ target = "kv"
       /\ kvTx[t].rolled /\ kvTx[t].written
       /\ ret = Ret(t, ErrFinished)
       /\ kvVer = 0 /\ kv # kvTx[t].write

\* C32: when a Commit call returns, whatever it returns, the transaction is
\* finished: done is set, so that the next Commit is refused; scalar, field
\* map, sorted set.
C32_Original ==
    [][/\ \A t \in KVTxIds : (target = "kv" /\ KVCommitReturns(t)) => kvTx'[t].done
       /\ \A t \in HashSoloIds : (target = "hash" /\ HashCommitReturns(t)) => hashTx'[t].done
       /\ \A t \in ZSetTxIds : (target = "zset" /\ ZSetTxCommit(t)) => zsetTx'[t].done]_vars

\* C33: on an in-memory transaction that is done (Commit or Rollback ran), HSet
\* returns an error and the buffered writes stay as they are, and Commit leaves
\* the store as it is; the store changes only by a direct HSet or by the one
\* Commit that finishes a transaction.
C33_MemLifecycle ==
    [][/\ \A t \in MemTxIds :
            /\ \A f \in HFields, v \in HPayloads :
                 (memTx[t].done /\ MemTxHSet(t, f, v)) =>
                    ret' = Ret(t, ErrFinished) /\ memTx'[t] = memTx[t]
            /\ (memTx[t].done /\ MemTxCommit(t)) => mem' = mem
            /\ memTx[t].done =>
                 /\ memTx'[t].done
                 /\ memTx'[t].writes = memTx[t].writes
                 /\ memTx'[t].commitVer = memTx[t].commitVer
       /\ mem' # mem =>
            \/ \E f \in HFields, v \in HPayloads : MemHSet(f, v)
            \/ \E t \in MemTxIds : ~memTx[t].done /\ memTx'[t].done /\ MemTxCommit(t)]_vars

\* a transaction was rolled back with a buffered write that the store does not
\* have, and its last call, an HSet, was refused
C33_Witness ==
    \E t \in MemTxIds, f \in HFields :
       /\ target = "mem"
       /\ memTx[t].done /\ memTx[t].commitVer = -1
       /\ f \in DOMAIN memTx[t].writes /\ f \notin DOMAIN mem
       /\ ret = Ret(t, ErrFinished)

\* C34: the snapshot a BeginTx returns is the store as it is at that moment,
\* and the loop of a Commit has then written none of the transaction's fields
\* or all of them.
C34_SnapshotAllOrNone ==
    [][MemBeginRUnlock =>
          /\ memTx'[2].snapshot = mem
          /\ thr.applied \in {{}, DOMAIN memTx[1].writes}]_vars

\* BeginTx returned after a Commit of two fields, and its snapshot has both
C34_Witness ==
    /\ target = "mem"
    /\ memTx[1].done /\ memTx[1].commitVer >= 0
    /\ memTx[2].st = "open"
    /\ DOMAIN memTx[1].writes = HFields
    /\ thr.applied = HFields
    /\ \A f \in HFields : f \in DOMAIN memTx[2].snapshot
                            /\ memTx[2].snapshot[f] = memTx[1].writes[f]
    /\ mem # memTx[1].snapshot

\* the n members of a stored set that come first, or last, by rank
ZFirstN(z, n) == {m \in DOMAIN z : ZRank(z, m) < n}
ZLastN(z, n) == {m \in DOMAIN z : ZRank(z, m) >= Cardinality(DOMAIN z) - n}

\* C35: whatever direct ZAdd and ZRem calls run between the two commands of a
\* direct trim with n >= 0, the removal takes none of the n members the set
\* retains as it is when the removal runs (the n first by rank in
\* ZTrimByTopN, the n last in ZRevTrimByTopN), and leaves at least
\* min(n, current count) members.
C35_Original ==
    [][/\ (ZSetZTrimByTopNRem /\ zsetTrim.n >= 0) =>
             /\ ZFirstN(zset, zsetTrim.n) \subseteq DOMAIN zset'
             /\ Cardinality(DOMAIN zset') >= ZKept(zsetTrim.n, Cardinality(DOMAIN zset))
       /\ (ZSetZRevTrimByTopNRem /\ zsetTrim.n >= 0) =>
             /\ ZLastN(zset, zsetTrim.n) \subseteq DOMAIN zset'
             /\ Cardinality(DOMAIN zset') >= ZKept(zsetTrim.n, Cardinality(DOMAIN zset))]_vars

\* the calls that returned, or reached their return value, for a type and a name
MgrCalls(op, typ, name) ==
    {c \in {client[i] : i \in 1..Len(client)}
           \cup {thr[g] : g \in {h \in Goroutines : thr[h].pc \in {"unlock", "runlock"}}} :
        c.op = op /\ c.typ = typ /\ c.name = name}

\* C36: of the Register<Type>(name) calls goroutines make on one manager for
\* one type and one name, exactly one returns nil and every other one the
\* already-registered error; one instance is ever made, and every Get that
\* finds the name returns that instance.
C36_OneRegistration ==
    \A typ \in RegTypes, name \in RegNames :
        LET made == MgrCalls("Register", typ, name)
            ok == {c \in made : c.res.err = NoErr}
        IN  /\ regCalls[typ][name] <= 1
            /\ made # {} => /\ Cardinality(ok) = 1
                            /\ \A c \in made \ ok : c.res.err = ErrAlreadyRegistered
            /\ \A c \in MgrCalls("Get", typ, name) :
                 c.res.err = NoErr =>
                    \E r \in ok : c.res.val = r.res.val /\ reg[typ][name] = r.res.val[1]

\* two Register calls for one name returned, then a Get
C36_Witness ==
    /\ target = "manager"
    /\ Len(client) = 3
    /\ client[1].op = "Register" /\ client[2].op = "Register" /\ client[3].op = "Get"
    /\ client[1].typ = client[2].typ /\ client[1].name = client[2].name
    /\ client[3].typ = client[1].typ /\ client[3].name = client[1].name
    /\ client[2].res.err = ErrAlreadyRegistered
    /\ client[3].res = client[1].res

\* C37: a SetScore by the caller on an element it passed to tx.ZAdd, made
\* between ZAdd and Commit, changes neither what the transaction's reads show
\* nor what Commit will write; a SetScore on a member tx.ZRange returned leaves
\* the snapshot as it is.
C37_Original ==
    [][\A t \in ZSetTxIds, s \in ZScores :
         /\ \A i \in 1..MaxZSetOps :
              ElementSetScore(t, i, s) =>
                 /\ applyOps(zsetTx'[t]) = applyOps(zsetTx[t])
                 /\ ZSetCommitBatch(zset, zsetTx'[t].ops) = ZSetCommitBatch(zset, zsetTx[t].ops)
         /\ \A m \in ZMembers :
              ReturnedSetScore(t, m, s) => zsetTx'[t].snapshot = zsetTx[t].snapshot]_vars

\* a call of one of the eight methods of the transaction
TxDBCall ==
    \E key \in ShareKeys :
        \/ \E value \in ShareValues : TxDBSet(key, value)
        \/ \E kind \in ResultKinds : TxDBGet(key, kind)
        \/ \E value \in ShareMaps : TxDBSetMap(key, value)
        \/ TxDBRangeMap(key)
        \/ \E fields \in ShareFieldSets : TxDBDeleteMapField(key, fields)
        \/ TxDBDelete(key)
        \/ TxDBCommit
        \/ TxDBRollback

\* C38: once Commit or Rollback has returned, every call on the transaction
\* (Set, Get, SetMap, RangeMap, DeleteMapField, Delete, Commit, Rollback)
\* returns ErrTxFinished, queues nothing and leaves the released pipeline, the
\* transaction and the server as they are; once the DB is closed every call
\* returns context.Canceled, finished or not.
C38_FinishedOrClosed ==
    [][/\ (TxDBCall /\ db.closed) =>
             /\ out'.res = Res(ErrCanceled, << >>)
             /\ UNCHANGED <<db, txDB>>
       /\ (TxDBCall /\ ~db.closed /\ txDB.finished) =>
             /\ out'.res = Res(ErrTxFinished, << >>)
             /\ UNCHANGED <<db, txDB>>
       /\ txDB'.finished => txDB'.released /\ txDB'.pipe = << >>
       /\ txDB.finished => txDB'.finished]_vars

\* a SetMap refused on a transaction that was committed with commands queued
C38_Witness ==
    /\ target = "share"
    /\ txDB.finished /\ txDB.released /\ ~db.closed
    /\ out.op = "SetMap" /\ out.res.err = ErrTxFinished
    /\ \E key \in ShareKeys : db.data[key].typ = "string"

\* C39: with no other writer, what RangeMap(key) visits in a transaction that
\* made SetMap, DeleteMapField and Delete calls on the key is what the hash
\* holds after Commit: the same fields with the same values, ErrEmptyKeyValue
\* standing for a key that will be absent.
C39_Original ==
    \A key \in ShareKeys :
        (target = "share" /\ ~txDB.finished) =>
            LET after == PipeExec(db.data, txDB.pipe).data[key]
                r == TxDBRangeMapResult(key)
            IN  IF r.err = ErrEmptyKeyValue THEN after.typ = "none"
                ELSE /\ r.err = NoErr
                     /\ DOMAIN r.val[1] = DOMAIN after.fields
                     /\ \A f \in DOMAIN after.fields :
                          jsonUnmarshal(after.fields[f], "any") = Res(NoErr, <<r.val[1][f]>>)

\* C40: in an open transaction, after Set(key, v) was the last Set or Delete
\* on the key, Get(key) into a variable of v's type returns v, whatever the
\* server holds, after Delete(key) Get returns ErrEmptyKeyValue, and the key
\* is never in both tx.deleted and tx.cache.
C40_ReadYourWrites ==
    \A key \in ShareKeys :
        /\ ~(key \in txDB.deleted /\ key \in DOMAIN txDB.cache)
        /\ (target = "share" /\ checkState = NoErr) =>
             /\ txDB.last[key].op = "Set" =>
                  TxDBGetResult(key, txDB.last[key].value.kind)
                     = Res(NoErr, <<txDB.last[key].value>>)
             /\ txDB.last[key].op = "Delete" =>
                  \A kind \in ResultKinds :
                     TxDBGetResult(key, kind) = Res(ErrEmptyKeyValue, << >>)

\* Get returned the value of a Set made after a Delete, the server holding a hash
C40_Witness ==
    /\ target = "share"
    /\ out.op = "Get" /\ out.res.err = NoErr
    /\ Len(txDB.pipe) = 2 /\ txDB.pipe[1].cmd = "DEL" /\ txDB.pipe[2].cmd = "SET"
    /\ \E key \in ShareKeys :
         /\ db.data[key].typ = "hash"
         /\ txDB.last[key].op = "Set"
         /\ out.res.val = <<txDB.last[key].value>>

\* C6: once Commit or Rollback has returned on a transaction (tx.done is set), a
\* further buffering call leaves the transaction and the backend as they are and
\* a further read fails with the terminated-transaction error.
C6_Original ==
    [][/\ \A t \in KVTxIds :
            kvTx[t].done =>
              /\ KVTxGetResult(kvTx[t]).err = ErrFinished
              /\ \A v \in KVPayloads : KVTxSet(t, v) => UNCHANGED <<kvTx, kv>>
       /\ \A t \in HashSoloIds :
            hashTx[t].done =>
              /\ \A f \in HFields : HashTxHGetResult(hashTx[t], f).err = ErrFinished
              /\ \A f \in HFields, v \in HPayloads :
                   HashTxHSet(t, f, v) => UNCHANGED <<hashTx, hash>>
              /\ \A fs \in HDelArgs : HashTxHDel(t, fs) => UNCHANGED <<hashTx, hash>>
       /\ \A t \in ZSetTxIds :
            zsetTx[t].done =>
              /\ \A m \in ZMembers, sc \in ZScores :
                   ZSetTxZAdd(t, m, sc) => UNCHANGED <<zsetTx, zset>>
              /\ \A m \in ZMembers : ZSetTxZRem(t, m) => UNCHANGED <<zsetTx, zset>>
              /\ \A n \in ZTrimNs :
                   (ZSetTxZTrimByTopN(t, n) \/ ZSetTxZRevTrimByTopN(t, n))
                       => UNCHANGED <<zsetTx, zset>>]_vars

\* steps that run a write command of a direct caller on the backend
KVDirectWrite == \E v \in KVPayloads : KVSet(v)
HashDirectWrite ==
    \/ \E f \in HFields, v \in HPayloads : HashHSet(f, v)
    \/ \E fs \in (SUBSET HFields) \ {{}} : HashHDel(fs)
ZSetDirectWrite ==
    \/ \E m \in ZMembers, sc \in ZScores : ZSetZAdd(m, sc)
    \/ \E m \in ZMembers : ZSetZRem(m)
    \/ ZSetZTrimByTopNRem
    \/ ZSetZRevTrimByTopNRem

\* C7: the backend is written only by a direct write or by the Commit of a
\* transaction on which Rollback was never called: no buffering call and no
\* transaction read writes it, and as long as nobody else has written since its
\* BeginTx, the backend of a rolled-back transaction is what BeginTx read.
C7_OnlyCommitWrites ==
    [][/\ <<kv, kvVer>>' # <<kv, kvVer>> =>
            \/ KVDirectWrite
            \/ \E t \in KVTxIds : /\ ~kvTx[t].rolled /\ ~kvTx[t].done
                                  /\ KVTxCommitEval(t) \/ KVTxCommitExec(t)
       /\ <<hash, hashVer>>' # <<hash, hashVer>> =>
            \/ HashDirectWrite
            \/ \E t \in HashSoloIds : /\ ~hashTx[t].rolled /\ ~hashTx[t].done
                                      /\ HashTxCommitEval(t) \/ HashTxCommitExec(t)
       /\ <<zset, zsetVer>>' # <<zset, zsetVer>> =>
            \/ ZSetDirectWrite
            \/ \E t \in ZSetTxIds : /\ ~zsetTx[t].rolled /\ ~zsetTx[t].done
                                    /\ ZSetTxCommit(t)
       /\ \A t \in KVTxIds :
            (kvTx'[t].rolled /\ kvVer' = kvTx'[t].beginVer) => kv' = kvTx'[t].snapshot
       /\ \A t \in HashSoloIds :
            (hashTx'[t].rolled /\ hashVer' = hashTx'[t].beginVer)
                => hash' = hashTx'[t].snapshot
       /\ \A t \in ZSetTxIds :
            (zsetTx'[t].rolled /\ zsetVer' = zsetTx'[t].beginVer)
                => zset' = ZSnapMap(zsetTx'[t].snapshot)]_vars

C7_Witness ==
    \E t \in ZSetTxIds :
        /\ zsetTx[t].rolled
        /\ Len(zsetTx[t].ops) > 0
        /\ applyOps(zsetTx[t]) # zset
        /\ ret = Ret(t, ErrFinished)
        /\ zsetVer = zsetTx[t].beginVer
        /\ zset = ZSnapMap(zsetTx[t].snapshot)

=============================================================================
